---- MODULE Spec2Model ----
(***************************************************************************)
(* Batch transfer orchestration of the Arke upload client and server.      *)
(*                                                                         *)
(* Three entry points of the repository are modelled, one per behaviour:   *)
(*   "sdk"       ArkeUploader.uploadBatch          (src/src/uploader.ts)   *)
(*   "multipart" uploadSingleFile's multipart branch with uploadMultipart  *)
(*               and executeWithConcurrency (src/dist/lib/validation.d.ts) *)
(*   "server"    one upload session of the HTTP server with its background *)
(*               Uploader.upload run (src/src/server, src/unnamed/part_013)*)
(* Every await of the code is a point where another callback may run, so   *)
(* one action is the synchronous code between two awaits.                  *)
(***************************************************************************)
EXTENDS Integers, Sequences, FiniteSets, TLC

\* ---------------------------------------------------------------- bounds
MaxFiles == 3
MaxParallel == 2
FileSizes == {1024, 2048}
MaxParts == 4
MaxParallelParts == 2
\* largest number of part PUTs followed after their file has failed
MaxStrayPuts == 1
\* largest fileData.byteLength handed to uploadMultipart
MaxBytes == 9
MaxTasks == 2
MaxStarts == 2
ReceivedFileSize == 1024
\* milliseconds by which a timer may fire after its delay has elapsed
MaxTimerLag == 1
\* largest maxRetries tried
MaxRetries == 2
\* Math.random() is drawn from {0, 1/RandomSteps, ..., 1 - 1/RandomSteps}
RandomSteps == 4
\* values of the initialDelay and maxDelay options, when set
InitialDelays == {250, 1000}
MaxDelays == {1500, 3000}

\* ------------------------------------------------------ program constants
DefaultParallelUploads == 5
DefaultParallelParts == 3
\* SessionManager.SESSION_TTL, in milliseconds; time is counted from the
\* clock value that createSession reads
SESSION_TTL == 86400000
\* DEFAULT_OPTIONS of retryWithBackoff
DefaultMaxRetries == 3
DefaultInitialDelay == 1000
DefaultMaxDelay == 30000

VARIABLES
  entry,           \* which entry point this behaviour exercises
  \* ---- ArkeUploader.uploadBatch
  files,           \* scanner result: sequence of file sizes
  parallelUploads, \* config.parallelUploads (0 = unset)
  dryRun,          \* options.dryRun
  phase,           \* position of uploadBatch
  queue,           \* uploadFilesWithConcurrency: queue of file indices
  wfile,           \* worker -> file it owns (0 = none)
  wstep,           \* worker -> awaited call of uploadSingleFile
  failedFiles,     \* uploadFilesWithConcurrency: failedFiles
  filesUploaded,   \* uploadBatch: let filesUploaded
  bytesUploaded,   \* uploadBatch: let bytesUploaded
  progress,        \* last UploadProgress handed to onProgress
  reports,         \* the phase of every UploadProgress handed to onProgress
  finalizeCalls,   \* number of workerClient.finalizeBatch calls issued
  result,          \* settled promise of uploadBatch
  attempts,        \* file -> number of uploadSingleFile invocations
  claimedBy,       \* file -> set of workers that shifted it off the queue
  fileState,       \* file -> "queued" | "inflight" | "completed" | "failed"
  startOrder,      \* files in the order their upload was started
  strayPuts,       \* part PUTs still in flight of files that have failed
  \* ---- uploadSingleFile (multipart branch) / uploadMultipart
  numParts,        \* presignedUrls.length
  urlOrder,        \* part_number of each PresignedUrlInfo, in list order
  mpSize,          \* fileData.byteLength
  chunks,          \* partData of each task: the bytes [from, to) it holds
  parallelParts,   \* config.parallelParts (0 = unset)
  mpPhase,         \* position of the multipart branch of uploadSingleFile
  partQueue,       \* executeWithConcurrency: queue of part tasks
  pwpart,          \* worker -> part number whose PUT it awaits (0 = none)
  pwstate,         \* worker -> "unspawned" | "running" | "exited" | "threw"
  parts,           \* uploadMultipart: parts, in push order
  mpReturned,      \* PartInfo list returned by uploadMultipart
  completeRequest, \* parts of the completeFileUpload request ("none" = not sent)
  partStartOrder,  \* part numbers in the order their PUT was started
  \* ---- upload session of the server (sessionManager, routes/upload.ts)
  stored,          \* sessions.has(sessionId)
  session,         \* the UploadSession held by the store (status "none"
                   \* before createSession, "deleted" after sessions.delete);
                   \* its progress record is left out
  uploadDir,       \* the session's upload directory exists on disk
  diskFiles,       \* number of files in the upload directory
  cleanupTimer,    \* cleanupTimers.has(sessionId)
  graceTimers,     \* number of pending 5-minute deletion timers
  multerPc,        \* files request: "idle" | "stored" (multer done, handler due)
  multerFiles,     \* req.files of the files request in flight: <<count, bytes>>
  deletePc,        \* caller -> position of its deleteSession call
  cancelBefore,    \* session.status read by the DELETE handler in flight
  lastResp,        \* HTTP response sent by the last step (NoResp: none)
  \* ---- Uploader.upload runs started by processUploadSession
  \* One run is followed step by step: the first one, and any run started
  \* after it has settled.  A run started while it is still unsettled is
  \* followed by its outcome only (otherRuns).
  runsStarted,     \* number of processUploadSession calls so far
  otherRuns,       \* unsettled runs besides the one followed step by step
  runPc,           \* position of Uploader.upload
  runDryRun,       \* config.dryRun
  runParallelUploads, \* config.parallelUploads, copied from session.config
  tasks,           \* context.tasks, the status of each UploadTask
  taskQueue,       \* uploadFiles: queue
  twtask,          \* worker -> task it owns (0 = none)
  twstep,          \* worker -> "unspawned" | "uploadFile" | "exited"
  hasErrors,       \* uploadFiles: hasErrors
  runFinalizeCalls,\* number of client.finalizeBatch calls issued
  runReports,      \* the phase of every report handed to progressCallback
  taskAttempts,    \* task -> number of uploadFile invocations
  taskClaimedBy,   \* task -> set of workers that shifted it
  \* ---- retryWithBackoff
  rCaller,         \* who calls retryWithBackoff
  rGiven,          \* the options object it is given
  rPc,             \* "idle" | "fn" | "sleep" | "returned" | "thrown"
  rAttempt,        \* attempt
  rCalls,          \* number of calls of fn so far
  rLastError,      \* lastError
  rFnError,        \* the error the last call of fn rejected with
  rThrown,         \* the error retryWithBackoff rejects with
  rLastOutcome,    \* what the last call of fn met
  rDelays          \* the delays computed so far, before and after jitter

sdkVars == <<files, parallelUploads, dryRun, phase, queue, wfile, wstep,
             failedFiles, filesUploaded, bytesUploaded, progress, reports,
             finalizeCalls, result, attempts, claimedBy, fileState,
             startOrder, strayPuts>>

mpVars == <<numParts, urlOrder, parallelParts, mpSize, chunks, mpPhase, partQueue, pwpart, pwstate,
            parts, mpReturned, completeRequest, partStartOrder>>

sessVars == <<stored, session, uploadDir, diskFiles, cleanupTimer, graceTimers,
              multerPc, multerFiles, deletePc, cancelBefore, lastResp>>

runVars == <<runsStarted, otherRuns, runPc, runDryRun, runParallelUploads, tasks, taskQueue, twtask, twstep,
             hasErrors, runFinalizeCalls, runReports, taskAttempts,
             taskClaimedBy>>

srvVars == <<sessVars, runVars>>

retryVars == <<rCaller, rGiven, rPc, rAttempt, rCalls, rLastError, rFnError,
               rThrown, rLastOutcome, rDelays>>

vars == <<entry, sdkVars, mpVars, srvVars, retryVars>>

\* ---------------------------------------------------------------- helpers
Min(a, b) == IF a < b THEN a ELSE b

Range(s) == {s[i] : i \in 1..Len(s)}

RECURSIVE SumSeq(_)
SumSeq(s) == IF s = <<>> THEN 0 ELSE Head(s) + SumSeq(Tail(s))

RECURSIVE SumSizes(_, _)
SumSizes(fs, S) ==
  IF S = {} THEN 0
  ELSE LET f == CHOOSE x \in S : TRUE IN fs[f] + SumSizes(fs, S \ {f})

\* Math.round(num / den) for num >= 0, den > 0
Round(num, den) == (2 * num + den) \div (2 * den)

RECURSIVE SeqsUpTo(_, _)
SeqsUpTo(S, n) ==
  IF n = 0 THEN {<<>>}
  ELSE LET shorter == SeqsUpTo(S, n - 1)
       IN shorter \cup {Append(s, x) : s \in {t \in shorter : Len(t) = n - 1}, x \in S}

\* the sequence <<a + 1, ..., b>>
RECURSIVE FromTo(_, _)
FromTo(a, b) == IF a >= b THEN <<>> ELSE <<a + 1>> \o FromTo(a + 1, b)

FileIds == 1..Len(files)
Workers == 1..MaxFiles
totalSize == SumSeq(files)

\* steps of uploadSingleFile, each one awaited call
FileSteps == <<"startFileUpload", "getFileData", "put", "completeFileUpload">>

NextStep(s) ==
  CASE s = "startFileUpload" -> "getFileData"
    [] s = "getFileData" -> "put"
    [] s = "put" -> "completeFileUpload"
    [] OTHER -> "done"

NoProgress ==
  [phase |-> "none", filesTotal |-> 0, filesUploaded |-> 0,
   bytesTotal |-> 0, bytesUploaded |-> 0, percentComplete |-> 0]

NoResult == [kind |-> "pending", filesUploaded |-> 0, bytesUploaded |-> 0]

\* this.config.parallelUploads || 5
Concurrency == IF parallelUploads = 0 THEN DefaultParallelUploads ELSE parallelUploads

\* ------------------------------------------------------------------- Init
SdkIdle ==
  /\ phase = "idle" /\ queue = <<>>
  /\ wfile = [w \in Workers |-> 0]
  /\ wstep = [w \in Workers |-> "unspawned"]
  /\ failedFiles = <<>> /\ filesUploaded = 0 /\ bytesUploaded = 0
  /\ progress = NoProgress /\ reports = <<>>
  /\ finalizeCalls = 0 /\ result = NoResult
  /\ attempts = [f \in 1..MaxFiles |-> 0]
  /\ claimedBy = [f \in 1..MaxFiles |-> {}]
  /\ fileState = [f \in 1..MaxFiles |-> "queued"]
  /\ startOrder = <<>>
  /\ strayPuts = 0

InitSdk ==
  /\ entry = "sdk"
  /\ files \in SeqsUpTo(FileSizes, MaxFiles)
  /\ parallelUploads \in 0..MaxParallel
  /\ dryRun \in BOOLEAN
  /\ SdkIdle

PartWorkers == 1..MaxParts

MpIdle ==
  /\ mpPhase = "idle" /\ partQueue = <<>> /\ chunks = <<>>
  /\ pwpart = [w \in PartWorkers |-> 0]
  /\ pwstate = [w \in PartWorkers |-> "unspawned"]
  /\ parts = <<>> /\ mpReturned = <<>> /\ completeRequest = "none"
  /\ partStartOrder = <<>>

\* the orders in which the service may list the presigned URLs of parts
\* 1..n: presigned_urls[i].part_number for each place i
UrlOrders(n) ==
  {o \in [1..n -> 1..n] : \A i, j \in 1..n : o[i] = o[j] => i = j}

InitMultipart ==
  /\ entry = "multipart"
  /\ numParts \in 0..MaxParts
  /\ urlOrder \in UrlOrders(numParts)
  /\ mpSize \in 1..MaxBytes
  /\ parallelParts \in 0..MaxParallelParts
  /\ MpIdle

TaskIds == 1..MaxTasks
TaskWorkers == 1..MaxTasks
DeleteCallers == {"cancel", "grace", "ttl"}

NoSession ==
  [status |-> "none", filesReceived |-> 0, totalSize |-> 0, errors |-> <<>>,
   parallelUploads |-> 0, expiresAt |-> 0]

\* sessions.get(sessionId) after sessions.delete(sessionId): no record
DeletedSession == [NoSession EXCEPT !.status = "deleted"]

NoResp == [op |-> "none", code |-> 0, status |-> "none", before |-> "none"]

\* the server has started and no session has been created yet
SrvIdle ==
  /\ stored = FALSE /\ session = NoSession
  /\ uploadDir = FALSE /\ diskFiles = 0
  /\ cleanupTimer = FALSE /\ graceTimers = 0
  /\ multerPc = "idle" /\ multerFiles = <<0, 0>>
  /\ deletePc = [c \in DeleteCallers |-> "idle"]
  /\ cancelBefore = "none" /\ lastResp = NoResp
  /\ runsStarted = 0
  /\ otherRuns = 0
  /\ runPc = "none"
  /\ runDryRun = FALSE
  /\ runParallelUploads = 0
  /\ tasks = <<>>
  /\ taskQueue = <<>>
  /\ twtask = [w \in TaskWorkers |-> 0]
  /\ twstep = [w \in TaskWorkers |-> "unspawned"]
  /\ hasErrors = FALSE
  /\ runFinalizeCalls = 0
  /\ runReports = <<>>
  /\ taskAttempts = [t \in TaskIds |-> 0]
  /\ taskClaimedBy = [t \in TaskIds |-> {}]

\* ------------------------------------------------------------ retryWithBackoff
\* JavaScript values of the options and of the delay: a number, undefined
\* or NaN; "absent" is an option key that the caller does not pass
Num(n) == [k |-> "number", v |-> n]
Undef == [k |-> "undefined", v |-> 0]
NaNv == [k |-> "NaN", v |-> 0]
AbsentKey == [k |-> "absent", v |-> 0]

\* a * b, Math.min(a, b) and Math.floor(a * num / den) on these values
JsTimes(a, n) == IF a.k = "number" THEN Num(a.v * n) ELSE NaNv

JsMin(a, b) ==
  IF a.k = "number" /\ b.k = "number" THEN Num(Min(a.v, b.v)) ELSE NaNv

JsFloorFrac(a, num, den) ==
  IF a.k = "number" THEN Num((a.v * num) \div den) ELSE NaNv

RECURSIVE Pow2(_)
Pow2(a) == IF a = 0 THEN 1 ELSE 2 * Pow2(a - 1)

\* DEFAULT_OPTIONS
DEFAULT_OPTIONS ==
  [maxRetries |-> Num(DefaultMaxRetries),
   initialDelay |-> Num(DefaultInitialDelay),
   maxDelay |-> Num(DefaultMaxDelay),
   shouldRetry |-> "isRetryableError",
   jitter |-> "true"]

\* { ...DEFAULT_OPTIONS, ...options }: a key that is passed wins, also when
\* its value is undefined
MergeOptions(defaults, given) ==
  [maxRetries |-> IF given.maxRetries.k = "absent"
                    THEN defaults.maxRetries ELSE given.maxRetries,
   initialDelay |-> IF given.initialDelay.k = "absent"
                      THEN defaults.initialDelay ELSE given.initialDelay,
   maxDelay |-> IF given.maxDelay.k = "absent"
                  THEN defaults.maxDelay ELSE given.maxDelay,
   shouldRetry |-> IF given.shouldRetry = "absent"
                     THEN defaults.shouldRetry ELSE given.shouldRetry,
   jitter |-> IF given.jitter = "absent"
                THEN defaults.jitter ELSE given.jitter]

\* errors: statusCode and retryAfter 0 stand for a property that is not
\* set (every test of them in the code is a truthiness test or === 429)
NoError ==
  [cls |-> "none", statusCode |-> 0, cause |-> 0, retryAfter |-> 0,
   code |-> "none"]

\* new UploadError(message, fileName, cause)
UploadError(cause) == [NoError EXCEPT !.cls = "UploadError", !.cause = cause]

\* new WorkerAPIError(message, statusCode, details)
WorkerAPIError(statusCode) ==
  [NoError EXCEPT !.cls = "WorkerAPIError", !.statusCode = statusCode]

\* new NetworkError(message)
NetworkError == [NoError EXCEPT !.cls = "NetworkError"]

\* an error of Node's net layer, with its code property
SystemError(code) == [NoError EXCEPT !.cls = "Error", !.code = code]

\* an error that carries statusCode 429 and retryAfter (in seconds), the
\* two properties the catch block reads
RateLimitError(n) ==
  [NoError EXCEPT !.cls = "Error", !.statusCode = 429, !.retryAfter = n]

RetryableCodes == {"ECONNRESET", "ETIMEDOUT", "ENOTFOUND", "ECONNREFUSED"}

isRetryableError(error) ==
  IF error.cls = "NetworkError" THEN TRUE
  ELSE IF error.cls = "WorkerAPIError"
    THEN (IF error.statusCode # 0 THEN error.statusCode >= 500 ELSE FALSE)
  ELSE IF error.code \in RetryableCodes THEN TRUE
  ELSE FALSE

\* what one call of the operation meets: a response (status, Retry-After
\* header, ETag header, body that parses as JSON) or a rejected fetch
Response(status, hasRA, ra, etag, json) ==
  [kind |-> "response", status |-> status, hasRetryAfter |-> hasRA,
   retryAfter |-> ra, etag |-> etag, json |-> json]

FetchRejects(kind) ==
  [kind |-> kind, status |-> 0, hasRetryAfter |-> FALSE, retryAfter |-> 0,
   etag |-> FALSE, json |-> FALSE]

NoOutcome == FetchRejects("none")

ResponseOk(o) == o.kind = "response" /\ o.status \in 200..299

\* the operation of uploadSimple: NoError when it returns
SimplePutError(o) ==
  IF o.kind # "response" THEN UploadError(0)
  ELSE IF ~ResponseOk(o)
    THEN [UploadError(o.status) EXCEPT
            !.retryAfter = IF o.hasRetryAfter /\ o.status = 429
                             THEN o.retryAfter ELSE 0]
  ELSE NoError

\* the operation of uploadPart
PartPutError(o) ==
  IF o.kind # "response" \/ ~ResponseOk(o) THEN SimplePutError(o)
  ELSE IF ~o.etag THEN UploadError(o.status)
  ELSE NoError

\* WorkerClient.request
WorkerRequestError(o) ==
  IF o.kind = "abort" THEN NetworkError
  ELSE IF o.kind # "response" THEN NetworkError
  ELSE IF ~o.json THEN NetworkError
  ELSE IF ~ResponseOk(o) THEN WorkerAPIError(o.status)
  ELSE NoError

RetryAfterHeaders == {0, 2, 60}

\* an operation given to retryWithBackoff directly: it rejects with the
\* error it is made to reject with
GenericErrors ==
  {NetworkError, WorkerAPIError(500), WorkerAPIError(404), UploadError(0),
   SystemError("ECONNRESET"), SystemError("EPIPE")}
    \cup {RateLimitError(n) : n \in RetryAfterHeaders \ {0}}

Callers == {"uploadSimple", "uploadPart", "WorkerClient", "direct"}

PutResponses ==
  {Response(s, FALSE, 0, e, FALSE) : s \in {200, 403, 429, 500},
                                     e \in BOOLEAN}
    \cup {Response(429, TRUE, n, FALSE, FALSE) : n \in RetryAfterHeaders}
    \cup {Response(503, TRUE, 2, FALSE, FALSE)}

WorkerResponses ==
  {Response(s, FALSE, 0, FALSE, j) : s \in {200, 400, 404, 429, 500, 503},
                                     j \in BOOLEAN}
    \cup {Response(429, TRUE, 2, FALSE, TRUE)}

Outcomes(caller) ==
  IF caller \in {"uploadSimple", "uploadPart"}
    THEN PutResponses \cup {FetchRejects("transport")}
  ELSE IF caller = "WorkerClient"
    THEN WorkerResponses \cup {FetchRejects("transport"), FetchRejects("abort")}
  ELSE {Response(200, FALSE, 0, FALSE, FALSE)}

\* the error with which the operation of the caller rejects on outcome o
OperationError(caller, o) ==
  IF caller = "uploadSimple" THEN SimplePutError(o)
  ELSE IF caller = "uploadPart" THEN PartPutError(o)
  ELSE IF caller = "WorkerClient" THEN WorkerRequestError(o)
  ELSE NoError

\* the retry options of the uploader configuration, each set or not
ConfigDelays(S) == {Undef} \cup {Num(n) : n \in S}

ConfigJitter == {"undefined", "true", "false"}

\* the options object each caller passes to retryWithBackoff
GivenOptions(caller) ==
  IF caller \in {"uploadSimple", "uploadPart"}
    THEN [maxRetries : {Num(n) : n \in 0..MaxRetries},
          initialDelay : ConfigDelays(InitialDelays),
          maxDelay : ConfigDelays(MaxDelays),
          shouldRetry : {"absent"},
          jitter : ConfigJitter]
  ELSE IF caller = "WorkerClient"
    THEN [maxRetries : {Num(n) : n \in 0..MaxRetries},
          initialDelay : {AbsentKey}, maxDelay : {AbsentKey},
          shouldRetry : {"absent"}, jitter : {"absent"}]
  ELSE [maxRetries : {Num(n) : n \in 0..MaxRetries},
        initialDelay : {AbsentKey} \cup {Num(n) : n \in InitialDelays},
        maxDelay : {AbsentKey} \cup {Num(n) : n \in MaxDelays},
        shouldRetry : {"absent", "undefined", "always", "never"},
        jitter : {"absent", "false"}]

opts == MergeOptions(DEFAULT_OPTIONS, rGiven)

\* attempt <= opts.maxRetries, the test of the loop
LoopTest(attempt, o) == attempt <= o.maxRetries.v

\* slip: the last failure is not recognised as the last
Exhausted_OffByOne(attempt, o) == attempt > o.maxRetries.v

\* attempt >= opts.maxRetries: no attempt is left
Exhausted(attempt, o) == attempt >= o.maxRetries.v

\* opts.shouldRetry && !opts.shouldRetry(error)
ShouldRetryRefuses(o, error) ==
  IF o.shouldRetry = "undefined" THEN FALSE
  ELSE IF o.shouldRetry = "always" THEN FALSE
  ELSE IF o.shouldRetry = "never" THEN TRUE
  ELSE ~isRetryableError(error)

\* error.statusCode === 429 && error.retryAfter
HasServerHint(error) == error.statusCode = 429 /\ error.retryAfter # 0

\* slip: the Math.min with maxDelay is left out of the backoff
BaseDelay_NoCap(o, error, attempt) ==
  IF HasServerHint(error)
    THEN JsMin(Num(error.retryAfter * 1000), o.maxDelay)
    ELSE JsTimes(o.initialDelay, Pow2(attempt))

\* slip: the factor 2^attempt is left out, every backoff delay is the first
BaseDelay_NoGrowth(o, error, attempt) ==
  IF HasServerHint(error)
    THEN JsMin(Num(error.retryAfter * 1000), o.maxDelay)
    ELSE JsMin(o.initialDelay, o.maxDelay)

\* the delay before jitter
BaseDelay(o, error, attempt) ==
  IF HasServerHint(error)
    THEN JsMin(Num(error.retryAfter * 1000), o.maxDelay)
    ELSE JsMin(JsTimes(o.initialDelay, Pow2(attempt)), o.maxDelay)

\* slip: the jitter amount is half the delay instead of a quarter
SleptDelay_WideJitter(o, base, draw) ==
  IF o.jitter = "true"
    THEN JsFloorFrac(base, 2 * RandomSteps + 4 * draw, 4 * RandomSteps)
    ELSE base

\* Math.floor of the delay after jitter, for Math.random() = draw / RandomSteps
SleptDelay(o, base, draw) ==
  IF o.jitter = "true"
    THEN JsFloorFrac(base, 3 * RandomSteps + 2 * draw, 4 * RandomSteps)
    ELSE base

RetryIdle ==
  /\ rPc = "idle" /\ rAttempt = 0 /\ rCalls = 0
  /\ rLastError = NoError /\ rFnError = NoError /\ rThrown = NoError
  /\ rLastOutcome = NoOutcome /\ rDelays = <<>>

InitRetry ==
  /\ entry = "retry"
  /\ rCaller \in Callers
  /\ rGiven \in GivenOptions(rCaller)
  /\ RetryIdle

RetryUnused ==
  /\ rCaller = "direct"
  /\ rGiven = [maxRetries |-> Num(0), initialDelay |-> AbsentKey,
               maxDelay |-> AbsentKey, shouldRetry |-> "absent",
               jitter |-> "absent"]
  /\ RetryIdle

\* retryWithBackoff is called: the loop is entered with attempt 0 and the
\* operation is called
RetryWithBackoffCall ==
  /\ entry = "retry" /\ rPc = "idle"
  /\ rAttempt' = 0
  /\ IF LoopTest(0, opts)
       THEN rPc' = "fn" /\ rCalls' = 1 /\ UNCHANGED rThrown
       ELSE rPc' = "thrown" /\ rThrown' = rLastError /\ UNCHANGED rCalls
  /\ UNCHANGED <<rCaller, rGiven, rLastError, rFnError, rLastOutcome,
                 rDelays>>
  /\ UNCHANGED <<entry, sdkVars, mpVars, srvVars>>

\* the catch block of the loop for the error of this attempt
CatchBlock(error) ==
  /\ rLastError' = error
  /\ IF Exhausted(rAttempt, opts)
       THEN rPc' = "thrown" /\ rThrown' = error /\ UNCHANGED rDelays
     ELSE IF ShouldRetryRefuses(opts, error)
       THEN rPc' = "thrown" /\ rThrown' = error /\ UNCHANGED rDelays
     ELSE /\ rPc' = "sleep"
          /\ UNCHANGED rThrown
          /\ \E draw \in 0..(RandomSteps - 1) :
               LET base == BaseDelay(opts, error, rAttempt) IN
               rDelays' = Append(rDelays,
                                 [attempt |-> rAttempt,
                                  hint |-> HasServerHint(error),
                                  base |-> base,
                                  slept |-> SleptDelay(opts, base, draw)])

\* the awaited operation settles
FnSettles ==
  /\ entry = "retry" /\ rPc = "fn"
  /\ \/ \E o \in Outcomes(rCaller) :
          /\ rLastOutcome' = o
          /\ LET error == OperationError(rCaller, o) IN
             /\ rFnError' = error
             /\ IF error = NoError
                  THEN /\ rPc' = "returned"
                       /\ UNCHANGED <<rLastError, rThrown, rDelays>>
                  ELSE CatchBlock(error)
     \/ /\ rCaller = "direct"
        /\ \E error \in GenericErrors :
             /\ rLastOutcome' = FetchRejects("rejected")
             /\ rFnError' = error
             /\ CatchBlock(error)
  /\ UNCHANGED <<rCaller, rGiven, rAttempt, rCalls>>
  /\ UNCHANGED <<entry, sdkVars, mpVars, srvVars>>

\* the sleep is over: attempt++, the loop test, the next call
SleepEnds ==
  /\ entry = "retry" /\ rPc = "sleep"
  /\ rAttempt' = rAttempt + 1
  /\ IF LoopTest(rAttempt + 1, opts)
       THEN rPc' = "fn" /\ rCalls' = rCalls + 1 /\ UNCHANGED rThrown
       ELSE rPc' = "thrown" /\ rThrown' = rLastError /\ UNCHANGED rCalls
  /\ UNCHANGED <<rCaller, rGiven, rLastError, rFnError, rLastOutcome,
                 rDelays>>
  /\ UNCHANGED <<entry, sdkVars, mpVars, srvVars>>

NextRetry == RetryWithBackoffCall \/ FnSettles \/ SleepEnds

SdkUnused == files = <<>> /\ parallelUploads = 0 /\ dryRun = FALSE /\ SdkIdle

MpUnused == numParts = 0 /\ urlOrder = <<>> /\ parallelParts = 0 /\ mpSize = 0 /\ MpIdle

InitServer == entry = "server" /\ SrvIdle

Init ==
  \/ InitSdk /\ MpUnused /\ SrvIdle /\ RetryUnused
  \/ InitMultipart /\ SdkUnused /\ SrvIdle /\ RetryUnused
  \/ InitServer /\ SdkUnused /\ MpUnused /\ RetryUnused
  \/ InitRetry /\ SdkUnused /\ MpUnused /\ SrvIdle

\* --------------------------------------------------------------- uploadBatch
\* uploadBatch is entered: the 'scanning' report, then the scan is awaited
UploadBatchCall ==
  /\ entry = "sdk" /\ phase = "idle"
  /\ phase' = "scanning"
  /\ reports' = Append(reports, "scanning")
  /\ progress' = [phase |-> "scanning", filesTotal |-> 0, filesUploaded |-> 0,
                  bytesTotal |-> 0, bytesUploaded |-> 0, percentComplete |-> 0]
  /\ UNCHANGED <<mpVars, srvVars>>
  /\ UNCHANGED <<entry, retryVars, strayPuts, files, parallelUploads, dryRun, queue, wfile, wstep,
                 failedFiles, filesUploaded, bytesUploaded, finalizeCalls,
                 result, attempts, claimedBy, fileState, startOrder>>

\* the scan returns: no files -> ValidationError; dryRun -> early result;
\* otherwise initBatch is issued
ScanDone ==
  /\ entry = "sdk" /\ phase = "scanning"
  /\ IF Len(files) = 0
       THEN /\ phase' = "failed"
            /\ result' = [NoResult EXCEPT !.kind = "rejected"]
       ELSE IF dryRun
         THEN /\ phase' = "dryRunDone"
              /\ result' = [kind |-> "returned", filesUploaded |-> Len(files),
                            bytesUploaded |-> totalSize]
         ELSE /\ phase' = "initBatch"
              /\ UNCHANGED result
  /\ UNCHANGED <<mpVars, srvVars>>
  /\ UNCHANGED <<entry, retryVars, strayPuts, files, parallelUploads, dryRun, queue, wfile, wstep,
                 failedFiles, filesUploaded, bytesUploaded, progress, reports,
                 finalizeCalls, attempts, claimedBy, fileState, startOrder>>

\* slip: the workers are started before the answer of initBatch is awaited,
\* so its failure finds uploads already issued
InitBatchFails_AfterSpawn ==
  /\ entry = "sdk" /\ phase = "initBatch"
  /\ phase' = "failed"
  /\ result' = [NoResult EXCEPT !.kind = "rejected"]
  /\ wfile' = [w \in Workers |-> IF w <= Min(Concurrency, Len(files)) THEN w ELSE 0]
  /\ wstep' = [w \in Workers |->
                 IF w <= Min(Concurrency, Len(files))
                   THEN "startFileUpload" ELSE "unspawned"]
  /\ attempts' = [f \in 1..MaxFiles |->
                    IF f <= Min(Concurrency, Len(files)) THEN 1 ELSE 0]
  /\ UNCHANGED <<mpVars, srvVars>>
  /\ UNCHANGED <<entry, retryVars, strayPuts, files, parallelUploads, dryRun, queue,
                 failedFiles, filesUploaded, bytesUploaded, progress, reports,
                 finalizeCalls, claimedBy, fileState, startOrder>>

\* workerClient.initBatch throws
InitBatchFails ==
  /\ entry = "sdk" /\ phase = "initBatch"
  /\ phase' = "failed"
  /\ result' = [NoResult EXCEPT !.kind = "rejected"]
  /\ UNCHANGED <<mpVars, srvVars>>
  /\ UNCHANGED <<entry, retryVars, strayPuts, files, parallelUploads, dryRun, queue, wfile, wstep,
                 failedFiles, filesUploaded, bytesUploaded, progress, reports,
                 finalizeCalls, attempts, claimedBy, fileState, startOrder>>

\* slip: one worker per file, whatever the concurrency
SpawnCount_AllFiles == Len(files)

\* number of processNext workers started by uploadFilesWithConcurrency
SpawnCount == Min(Concurrency, Len(files))

\* workerClient.initBatch returns: the 'uploading' report, then
\* uploadFilesWithConcurrency copies the files into the queue and starts
\* Math.min(concurrency, files.length) workers; each processNext() runs
\* synchronously down to its first await, so worker i shifts file i.
InitBatchOk ==
  /\ entry = "sdk" /\ phase = "initBatch"
  /\ phase' = "uploading"
  /\ reports' = Append(reports, "uploading")
  /\ progress' = [phase |-> "uploading", filesTotal |-> Len(files),
                  filesUploaded |-> 0, bytesTotal |-> totalSize,
                  bytesUploaded |-> 0, percentComplete |-> 0]
  /\ queue' = FromTo(SpawnCount, Len(files))
  /\ wfile' = [w \in Workers |-> IF w <= SpawnCount THEN w ELSE 0]
  /\ wstep' = [w \in Workers |->
                 IF w <= SpawnCount THEN "startFileUpload" ELSE "unspawned"]
  /\ attempts' = [f \in 1..MaxFiles |-> IF f <= SpawnCount THEN 1 ELSE 0]
  /\ claimedBy' = [f \in 1..MaxFiles |-> IF f <= SpawnCount THEN {f} ELSE {}]
  /\ fileState' = [f \in 1..MaxFiles |->
                     IF f <= SpawnCount THEN "inflight" ELSE "queued"]
  /\ startOrder' = FromTo(0, SpawnCount)
  /\ UNCHANGED <<mpVars, srvVars>>
  /\ UNCHANGED <<entry, retryVars, strayPuts, files, parallelUploads, dryRun, failedFiles,
                 filesUploaded, bytesUploaded, finalizeCalls, result>>

\* slip: `if` for `while` - a worker handles one file and returns
ProcessNextLoop_Once(w) ==
  /\ wfile' = [wfile EXCEPT ![w] = 0]
  /\ wstep' = [wstep EXCEPT ![w] = "exited"]
  /\ UNCHANGED <<queue, attempts, claimedBy, startOrder>>

\* processNext: while (queue.length > 0) { file = queue.shift(); ... } for
\* worker w whose previous file has just settled
ProcessNextLoop(w) ==
  IF queue # <<>>
    THEN /\ queue' = Tail(queue)
         /\ wfile' = [wfile EXCEPT ![w] = Head(queue)]
         /\ wstep' = [wstep EXCEPT ![w] = "startFileUpload"]
         /\ attempts' = [attempts EXCEPT ![Head(queue)] = @ + 1]
         /\ claimedBy' = [claimedBy EXCEPT ![Head(queue)] = @ \cup {w}]
         /\ startOrder' = Append(startOrder, Head(queue))
    ELSE /\ wfile' = [wfile EXCEPT ![w] = 0]
         /\ wstep' = [wstep EXCEPT ![w] = "exited"]
         /\ UNCHANGED <<queue, attempts, claimedBy, startOrder>>

Busy(w) == wstep[w] \in Range(FileSteps)

\* an awaited call of uploadSingleFile returns and the next one is issued
FileStepOk(w) ==
  /\ entry = "sdk" /\ phase = "uploading" /\ Busy(w)
  /\ NextStep(wstep[w]) # "done"
  /\ wstep' = [wstep EXCEPT ![w] = NextStep(wstep[w])]
  /\ UNCHANGED <<mpVars, srvVars>>
  /\ UNCHANGED <<entry, retryVars, strayPuts, files, parallelUploads, dryRun, phase, queue, wfile,
                 failedFiles, filesUploaded, bytesUploaded, progress, reports,
                 finalizeCalls, result, attempts, claimedBy, fileState,
                 startOrder>>

\* slip: `bytesUploaded = bytes` for `bytesUploaded += bytes`
OnFileComplete_Assign(bytes) ==
  /\ filesUploaded' = filesUploaded + 1
  /\ bytesUploaded' = bytes
  /\ reports' = Append(reports, "uploading")
  /\ progress' = [phase |-> "uploading", filesTotal |-> Len(files),
                  filesUploaded |-> filesUploaded + 1,
                  bytesTotal |-> totalSize,
                  bytesUploaded |-> bytes,
                  percentComplete |-> Round(100 * bytes, totalSize)]

\* onFileComplete callback of uploadBatch
OnFileComplete(bytes) ==
  /\ filesUploaded' = filesUploaded + 1
  /\ bytesUploaded' = bytesUploaded + bytes
  /\ reports' = Append(reports, "uploading")
  /\ progress' = [phase |-> "uploading", filesTotal |-> Len(files),
                  filesUploaded |-> filesUploaded + 1,
                  bytesTotal |-> totalSize,
                  bytesUploaded |-> bytesUploaded + bytes,
                  percentComplete |->
                    Round(100 * (bytesUploaded + bytes), totalSize)]

\* completeFileUpload returns: uploadSingleFile resolves, onFileComplete
\* runs and the worker goes round its loop
FileCompleted(w) ==
  /\ entry = "sdk" /\ phase = "uploading"
  /\ wstep[w] = "completeFileUpload"
  /\ OnFileComplete(files[wfile[w]])
  /\ fileState' = [fileState EXCEPT ![wfile[w]] = "completed"]
  /\ ProcessNextLoop(w)
  /\ UNCHANGED <<mpVars, srvVars>>
  /\ UNCHANGED <<entry, retryVars, strayPuts, files, parallelUploads, dryRun, phase, failedFiles,
                 finalizeCalls, result>>

\* any awaited call of uploadSingleFile throws: the catch of processNext
\* records the file in failedFiles and the worker goes round its loop.
\* When the call that throws is a multipart transfer, uploadMultipart has
\* rejected at the first part that failed (PartFailed) and the PUTs of its
\* other part workers, `left` of them, are still in flight
FileFailed(w) ==
  /\ entry = "sdk" /\ phase = "uploading" /\ Busy(w)
  /\ failedFiles' = Append(failedFiles, wfile[w])
  /\ fileState' = [fileState EXCEPT ![wfile[w]] = "failed"]
  /\ ProcessNextLoop(w)
  /\ \E left \in 0..(MaxStrayPuts - strayPuts) :
       /\ left > 0 => wstep[w] = "put"
       /\ strayPuts' = strayPuts + left
  /\ UNCHANGED <<mpVars, srvVars>>
  /\ UNCHANGED <<entry, retryVars, files, parallelUploads, dryRun, phase, filesUploaded,
                 bytesUploaded, progress, reports, finalizeCalls, result>>

AllWorkersExited == \A w \in Workers : wstep[w] \in {"unspawned", "exited"}

\* slip: `>` for `===`, the throw is never taken
AllFilesFailedCheck_Greater == Len(failedFiles) > Len(files)

\* slip: any failed file fails the batch
AllFilesFailedCheck_AnyFailed == Len(failedFiles) > 0

\* if (failedFiles.length === files.length) throw
AllFilesFailedCheck == Len(failedFiles) = Len(files)

\* Promise.all(workers) resolves; every file failed -> ValidationError,
\* otherwise the 'finalizing' report and finalizeBatch is issued
UploadsSettled ==
  /\ entry = "sdk" /\ phase = "uploading" /\ AllWorkersExited
  /\ IF AllFilesFailedCheck
       THEN /\ phase' = "failed"
            /\ result' = [NoResult EXCEPT !.kind = "rejected"]
            /\ UNCHANGED <<progress, reports, finalizeCalls>>
       ELSE /\ phase' = "finalizing"
            /\ reports' = Append(reports, "finalizing")
            /\ progress' = [phase |-> "finalizing", filesTotal |-> Len(files),
                            filesUploaded |-> filesUploaded,
                            bytesTotal |-> totalSize,
                            bytesUploaded |-> bytesUploaded,
                            percentComplete |-> 99]
            /\ finalizeCalls' = finalizeCalls + 1
            /\ UNCHANGED result
  /\ UNCHANGED <<mpVars, srvVars>>
  /\ UNCHANGED <<entry, retryVars, strayPuts, files, parallelUploads, dryRun, queue, wfile, wstep,
                 failedFiles, filesUploaded, bytesUploaded, attempts,
                 claimedBy, fileState, startOrder>>

\* workerClient.finalizeBatch returns: the 'complete' report and the
\* BatchResult
FinalizeOk ==
  /\ entry = "sdk" /\ phase = "finalizing"
  /\ phase' = "complete"
  /\ reports' = Append(reports, "complete")
  /\ progress' = [phase |-> "complete", filesTotal |-> Len(files),
                  filesUploaded |-> filesUploaded, bytesTotal |-> totalSize,
                  bytesUploaded |-> bytesUploaded, percentComplete |-> 100]
  /\ result' = [kind |-> "returned", filesUploaded |-> filesUploaded,
                bytesUploaded |-> bytesUploaded]
  /\ UNCHANGED <<mpVars, srvVars>>
  /\ UNCHANGED <<entry, retryVars, strayPuts, files, parallelUploads, dryRun, queue, wfile, wstep,
                 failedFiles, filesUploaded, bytesUploaded, finalizeCalls,
                 attempts, claimedBy, fileState, startOrder>>

\* slip: the 'complete' report is issued in a finally block, so also when
\* finalizeBatch throws
FinalizeFails_ReportsComplete ==
  /\ entry = "sdk" /\ phase = "finalizing"
  /\ phase' = "failed"
  /\ result' = [NoResult EXCEPT !.kind = "rejected"]
  /\ reports' = Append(reports, "complete")
  /\ progress' = [phase |-> "complete", filesTotal |-> Len(files),
                  filesUploaded |-> filesUploaded, bytesTotal |-> totalSize,
                  bytesUploaded |-> bytesUploaded, percentComplete |-> 100]
  /\ UNCHANGED <<mpVars, srvVars>>
  /\ UNCHANGED <<entry, retryVars, strayPuts, files, parallelUploads, dryRun, queue, wfile, wstep,
                 failedFiles, filesUploaded, bytesUploaded, finalizeCalls,
                 attempts, claimedBy, fileState, startOrder>>

\* workerClient.finalizeBatch throws
FinalizeFails ==
  /\ entry = "sdk" /\ phase = "finalizing"
  /\ phase' = "failed"
  /\ result' = [NoResult EXCEPT !.kind = "rejected"]
  /\ UNCHANGED <<mpVars, srvVars>>
  /\ UNCHANGED <<entry, retryVars, strayPuts, files, parallelUploads, dryRun, queue, wfile, wstep,
                 failedFiles, filesUploaded, bytesUploaded, progress, reports,
                 finalizeCalls, attempts, claimedBy, fileState, startOrder>>

\* a part PUT of a file that has already failed settles
StrayPutSettles ==
  /\ entry = "sdk" /\ strayPuts > 0
  /\ strayPuts' = strayPuts - 1
  /\ UNCHANGED <<mpVars, srvVars>>
  /\ UNCHANGED <<entry, retryVars, files, parallelUploads, dryRun, phase,
                 queue, wfile, wstep, failedFiles, filesUploaded,
                 bytesUploaded, progress, reports, finalizeCalls, result,
                 attempts, claimedBy, fileState, startOrder>>

NextSdk ==
  \/ UploadBatchCall
  \/ ScanDone
  \/ InitBatchFails
  \/ InitBatchOk
  \/ \E w \in Workers : FileStepOk(w)
  \/ \E w \in Workers : FileCompleted(w)
  \/ \E w \in Workers : FileFailed(w)
  \/ UploadsSettled
  \/ FinalizeOk
  \/ FinalizeFails
  \/ StrayPutSettles

\* ------------------------------------------------------------ uploadMultipart
\* this.config.parallelParts || 3
PartConcurrency ==
  IF parallelParts = 0 THEN DefaultParallelParts ELSE parallelParts

\* number of processNext workers started by executeWithConcurrency
PartSpawnCount == Min(PartConcurrency, numParts)

\* parts.sort((a, b) => a.part_number - b.part_number), as an insertion sort
RECURSIVE InsertPart(_, _)
InsertPart(sorted, p) ==
  IF sorted = <<>> THEN <<p>>
  ELSE IF p.part_number < Head(sorted).part_number
         THEN <<p>> \o sorted
         ELSE <<Head(sorted)>> \o InsertPart(Tail(sorted), p)

RECURSIVE SortParts(_)
SortParts(ps) ==
  IF ps = <<>> THEN <<>>
  ELSE InsertPart(SortParts(SubSeq(ps, 1, Len(ps) - 1)), ps[Len(ps)])

\* slip: the sort is left out, parts go out in completion order
ReturnedParts_Unsorted(ps) == ps

\* the list handed on by uploadMultipart once executeWithConcurrency resolved
ReturnedParts(ps) == SortParts(ps)

\* slip: Math.floor for Math.ceil
PartSize_Floor(total, n) == total \div n

\* const partSize = Math.ceil(totalSize / presignedUrls.length)
PartSize(total, n) == (total + n - 1) \div n

\* fileData.slice(start, end): both ends are clamped to the length and an end
\* before the start gives no bytes; the bytes copied are [from, to)
Slice(len, start, end) ==
  LET from == Min(start, len)
      to == Min(end, len)
  IN [from |-> from, to |-> IF to > from THEN to ELSE from]

\* the partData of the task built for URL i (0-based)
ChunkOf(total, n, i) ==
  LET partSize == PartSize(total, n)
      start == i * partSize
      end == Min(start + partSize, total)
  IN Slice(total, start, end)

\* the partData of all tasks, in the order of the loop
PartData(total, n) ==
  IF n = 0 THEN <<>> ELSE [k \in 1..n |-> ChunkOf(total, n, k - 1)]

\* uploadSingleFile enters the multipart branch: uploadMultipart builds one
\* task per presigned URL (part number i + 1 for URL i) and
\* executeWithConcurrency starts Math.min(concurrency, tasks.length)
\* workers, each of which shifts a task and issues its PUT
UploadMultipartCall ==
  /\ entry = "multipart" /\ mpPhase = "idle"
  /\ mpPhase' = "running"
  /\ partQueue' = FromTo(PartSpawnCount, numParts)
  /\ pwpart' = [w \in PartWorkers |-> IF w <= PartSpawnCount THEN w ELSE 0]
  /\ pwstate' = [w \in PartWorkers |->
                   IF w <= PartSpawnCount THEN "running" ELSE "unspawned"]
  /\ partStartOrder' = FromTo(0, PartSpawnCount)
  /\ chunks' = PartData(mpSize, numParts)
  /\ UNCHANGED <<numParts, urlOrder, parallelParts, mpSize, parts, mpReturned,
                 completeRequest>>
  /\ UNCHANGED <<entry, retryVars, sdkVars, srvVars>>

\* uploadSingleFile hands on presigned_urls.map((p) => p.url), and the task
\* with partNumber i + 1 PUTs to presignedUrls[i]: the URL of the task is
\* named here by the part_number the service issued it with
UrlOfTask(order, partNumber) == order[partNumber]

\* uploadPart of worker w returns an ETag: the task pushes its PartInfo and
\* processNext goes round its loop.  The ETag is that of the part the
\* storage holds under the part number of the URL, and is named by it
PartUploaded(w) ==
  /\ entry = "multipart" /\ pwstate[w] = "running"
  /\ parts' = Append(parts, [part_number |-> pwpart[w],
                             etag |-> UrlOfTask(urlOrder, pwpart[w])])
  /\ IF partQueue # <<>>
       THEN /\ partQueue' = Tail(partQueue)
            /\ pwpart' = [pwpart EXCEPT ![w] = Head(partQueue)]
            /\ partStartOrder' = Append(partStartOrder, Head(partQueue))
            /\ UNCHANGED pwstate
       ELSE /\ pwpart' = [pwpart EXCEPT ![w] = 0]
            /\ pwstate' = [pwstate EXCEPT ![w] = "exited"]
            /\ UNCHANGED <<partQueue, partStartOrder>>
  /\ UNCHANGED <<numParts, urlOrder, parallelParts, mpSize, chunks, mpPhase, mpReturned, completeRequest>>
  /\ UNCHANGED <<entry, retryVars, sdkVars, srvVars>>

\* slip: the rejection of the worker is not passed on (Promise.allSettled
\* for Promise.all), so uploadMultipart does not reject
PartFailed_NotPassedOn(w) ==
  /\ entry = "multipart" /\ pwstate[w] = "running"
  /\ pwstate' = [pwstate EXCEPT ![w] = "threw"]
  /\ pwpart' = [pwpart EXCEPT ![w] = 0]
  /\ UNCHANGED <<numParts, urlOrder, parallelParts, mpSize, chunks, mpPhase, partQueue,
                 parts, mpReturned, completeRequest, partStartOrder>>
  /\ UNCHANGED <<entry, retryVars, sdkVars, srvVars>>

\* uploadPart of worker w exhausts its retries: the task throws, processNext
\* of w rejects, and Promise.all - hence uploadMultipart - rejects at the
\* first such rejection; the other workers are not stopped
PartFailed(w) ==
  /\ entry = "multipart" /\ pwstate[w] = "running"
  /\ pwstate' = [pwstate EXCEPT ![w] = "threw"]
  /\ pwpart' = [pwpart EXCEPT ![w] = 0]
  /\ mpPhase' = IF mpPhase = "running" THEN "rejected" ELSE mpPhase
  /\ UNCHANGED <<numParts, urlOrder, parallelParts, mpSize, chunks, partQueue, parts, mpReturned,
                 completeRequest, partStartOrder>>
  /\ UNCHANGED <<entry, retryVars, sdkVars, srvVars>>

\* Promise.all(workers) resolves: uploadMultipart sorts and returns the
\* parts, and uploadSingleFile sends them in completeFileUpload
MultipartResolved ==
  /\ entry = "multipart" /\ mpPhase = "running"
  /\ \A w \in PartWorkers : pwstate[w] \in {"unspawned", "exited"}
  /\ mpPhase' = "completing"
  /\ mpReturned' = ReturnedParts(parts)
  /\ completeRequest' = ReturnedParts(parts)
  /\ UNCHANGED <<numParts, urlOrder, parallelParts, mpSize, chunks, partQueue, pwpart, pwstate, parts,
                 partStartOrder>>
  /\ UNCHANGED <<entry, retryVars, sdkVars, srvVars>>

\* workerClient.completeFileUpload settles: uploadSingleFile resolves or throws
CompleteMultipartSettles ==
  /\ entry = "multipart" /\ mpPhase = "completing"
  /\ \E ok \in BOOLEAN : mpPhase' = IF ok THEN "resolved" ELSE "rejected"
  /\ UNCHANGED <<numParts, urlOrder, parallelParts, mpSize, chunks, partQueue, pwpart, pwstate, parts,
                 mpReturned, completeRequest, partStartOrder>>
  /\ UNCHANGED <<entry, retryVars, sdkVars, srvVars>>

NextMultipart ==
  \/ UploadMultipartCall
  \/ \E w \in PartWorkers : PartUploaded(w)
  \/ \E w \in PartWorkers : PartFailed(w)
  \/ MultipartResolved
  \/ CompleteMultipartSettles

\* ------------------------------------------------------------ SessionManager
\* updateSession and addError act only on a session still in the store
UpdateStatus(s, st) == IF stored THEN [s EXCEPT !.status = st] ELSE s

AddError(s, e) == IF stored THEN [s EXCEPT !.errors = Append(@, e)] ELSE s

Created == session.status # "none"

Resp(op, code, st, before) ==
  [op |-> op, code |-> code, status |-> st, before |-> before]

\* values of request.parallelUploads (0 = not given); a value of MaxTasks or
\* more starts one worker per task, as the default does
SessionParallel == 0..Min(MaxParallel, MaxTasks - 1)

\* POST /init: createSession makes the directory, stores the session with
\* status 'initialized' and schedules the TTL cleanup
InitRequest ==
  /\ entry = "server" /\ ~Created
  /\ \E hasUploader \in BOOLEAN, p \in SessionParallel :
       IF ~hasUploader
         THEN /\ lastResp' = Resp("init", 400, "none", "none")
              /\ UNCHANGED <<stored, session, uploadDir, cleanupTimer>>
         ELSE /\ stored' = TRUE
              /\ session' = [NoSession EXCEPT
                   !.status = "initialized",
                   !.expiresAt = SESSION_TTL,
                   !.parallelUploads =
                      IF p = 0 THEN DefaultParallelUploads ELSE p]
              /\ uploadDir' = TRUE
              /\ cleanupTimer' = TRUE
              /\ lastResp' = Resp("init", 200, "none", "none")
  /\ UNCHANGED <<diskFiles, graceTimers, multerPc, multerFiles, deletePc,
                 cancelBefore>>
  /\ UNCHANGED <<entry, retryVars, sdkVars, mpVars, runVars>>

\* POST /:sessionId/files, multer middleware: for n files the destination
\* callback looks the session up, makes the directory and the files are
\* written (a request for an unknown session is failed by the callback
\* or answered 404 by the handler, and changes nothing)
FilesRequestMulter ==
  /\ entry = "server" /\ stored /\ multerPc = "idle"
  /\ \E n \in 0..MaxTasks :
       /\ diskFiles + n <= MaxTasks
       /\ multerPc' = "stored"
       /\ lastResp' = NoResp
       /\ IF n = 0
            THEN /\ multerFiles' = <<0, 0>>
                 /\ UNCHANGED <<uploadDir, diskFiles>>
            ELSE /\ multerFiles' = <<n, n * ReceivedFileSize>>
                 /\ uploadDir' = TRUE
                 /\ diskFiles' = diskFiles + n
  /\ UNCHANGED <<stored, session, cleanupTimer, graceTimers, deletePc,
                 cancelBefore>>
  /\ UNCHANGED <<entry, retryVars, sdkVars, mpVars, runVars>>

\* statuses for which the files handler answers 409
FilesRefused(st) == st \in {"processing", "completed"}

\* POST /:sessionId/files, the route handler
FilesRequestHandle ==
  /\ entry = "server" /\ multerPc = "stored"
  /\ multerPc' = "idle" /\ multerFiles' = <<0, 0>>
  /\ IF ~stored
       THEN /\ lastResp' = Resp("files", 404, "none", "absent")
            /\ UNCHANGED session
       ELSE IF FilesRefused(session.status)
         THEN /\ lastResp' = Resp("files", 409, "none", session.status)
              /\ UNCHANGED session
         ELSE /\ session' = [session EXCEPT
                   !.filesReceived = @ + multerFiles[1],
                   !.totalSize = @ + multerFiles[2],
                   !.status = "receiving"]
              /\ lastResp' = Resp("files", 200, "receiving", session.status)
  /\ UNCHANGED <<stored, uploadDir, diskFiles, cleanupTimer, graceTimers,
                 deletePc, cancelBefore>>
  /\ UNCHANGED <<entry, retryVars, sdkVars, mpVars, runVars>>

\* the run followed step by step has not settled yet
RunActive == runPc \notin {"none", "resolved", "rejected"}

\* statuses for which the process handler answers 409
ProcessRefused(st) == st \in {"processing", "completed"}

\* POST /:sessionId/process, for a session the handler does not refuse
\* (404 for an unknown one, 409 for a processing or completed one): it
\* sets 'processing' and calls processUploadSession, which runs up to the
\* first await of Uploader.upload (the 'scanning' report of scanFiles)
ProcessRequest ==
  /\ entry = "server" /\ stored
  /\ ~ProcessRefused(session.status)
  /\ runsStarted < MaxStarts
  /\ session' = [session EXCEPT !.status = "processing"]
  /\ lastResp' = Resp("process", 200, "processing", session.status)
  /\ runsStarted' = runsStarted + 1
  /\ IF RunActive
       THEN /\ otherRuns' = otherRuns + 1
            /\ UNCHANGED <<runPc, runDryRun, runParallelUploads, tasks,
                           taskQueue, twtask, twstep, hasErrors,
                           runFinalizeCalls, runReports, taskAttempts,
                           taskClaimedBy>>
       ELSE /\ \E dr \in BOOLEAN : runDryRun' = dr
            /\ runParallelUploads' = session.parallelUploads
            /\ runPc' = "scanFiles"
            /\ tasks' = <<>>
            /\ taskQueue' = <<>>
            /\ twtask' = [w \in TaskWorkers |-> 0]
            /\ twstep' = [w \in TaskWorkers |-> "unspawned"]
            /\ hasErrors' = FALSE
            /\ runFinalizeCalls' = 0
            /\ runReports' = <<"scanning">>
            /\ taskAttempts' = [t \in TaskIds |-> 0]
            /\ taskClaimedBy' = [t \in TaskIds |-> {}]
            /\ UNCHANGED otherRuns
  /\ UNCHANGED <<stored, uploadDir, diskFiles, cleanupTimer, graceTimers,
                 multerPc, multerFiles, deletePc, cancelBefore>>
  /\ UNCHANGED <<entry, retryVars, sdkVars, mpVars>>

\* deleteSession up to its await of fs.rm: the TTL timer is cleared
DeleteBegin(c) ==
  /\ cleanupTimer' = FALSE
  /\ deletePc' = [deletePc EXCEPT ![c] = "rm"]

\* statuses in which the DELETE handler sets 'cancelled' before deleting
CancelMarks(st) == st = "processing"

\* statuses in which the DELETE handler refuses to cancel
CancelRefused(st) == FALSE

\* DELETE /:sessionId (404 for an unknown session), up to the await of
\* deleteSession
CancelRequest ==
  /\ entry = "server" /\ stored /\ deletePc["cancel"] = "idle"
  /\ IF CancelRefused(session.status)
       THEN /\ lastResp' = Resp("cancel", 409, "none", session.status)
            /\ UNCHANGED <<session, cleanupTimer, deletePc, cancelBefore>>
       ELSE /\ cancelBefore' = session.status
            /\ session' = IF CancelMarks(session.status)
                            THEN UpdateStatus(session, "cancelled")
                            ELSE session
            /\ DeleteBegin("cancel")
            /\ lastResp' = NoResp
  /\ UNCHANGED <<stored, uploadDir, diskFiles, graceTimers, multerPc,
                 multerFiles>>
  /\ UNCHANGED <<entry, retryVars, sdkVars, mpVars, runVars>>

\* fs.rm(session.uploadDir, {recursive, force}) takes effect on disk
RemoveUploadDir(c) ==
  /\ entry = "server" /\ deletePc[c] = "rm"
  /\ uploadDir' = FALSE /\ diskFiles' = 0
  /\ deletePc' = [deletePc EXCEPT ![c] = "rmDone"]
  /\ UNCHANGED <<stored, session, cleanupTimer, graceTimers, multerPc,
                 multerFiles, cancelBefore>>
  /\ lastResp' = NoResp
  /\ UNCHANGED <<entry, retryVars, sdkVars, mpVars, runVars>>

\* slip: sessions.delete is left out
DeleteFinish_KeepsSession(c) ==
  /\ entry = "server" /\ deletePc[c] = "rmDone"
  /\ deletePc' = [deletePc EXCEPT ![c] = "idle"]
  /\ IF c = "cancel"
       THEN /\ lastResp' = Resp("cancel", 200, "cancelled", cancelBefore)
            /\ cancelBefore' = "none"
       ELSE /\ lastResp' = NoResp
            /\ UNCHANGED cancelBefore
  /\ UNCHANGED <<stored, session, uploadDir, diskFiles, cleanupTimer,
                 graceTimers, multerPc, multerFiles>>
  /\ UNCHANGED <<entry, retryVars, sdkVars, mpVars, runVars>>

\* deleteSession after the await: sessions.delete; the DELETE handler then
\* answers with status 'cancelled'
DeleteFinish(c) ==
  /\ entry = "server" /\ deletePc[c] = "rmDone"
  /\ stored' = FALSE
  /\ session' = DeletedSession
  /\ deletePc' = [deletePc EXCEPT ![c] = "idle"]
  /\ IF c = "cancel"
       THEN /\ lastResp' = Resp("cancel", 200, "cancelled", cancelBefore)
            /\ cancelBefore' = "none"
       ELSE /\ lastResp' = NoResp
            /\ UNCHANGED cancelBefore
  /\ UNCHANGED <<uploadDir, diskFiles, cleanupTimer, graceTimers,
                 multerPc, multerFiles>>
  /\ UNCHANGED <<entry, retryVars, sdkVars, mpVars, runVars>>

\* the 5-minute timer set by processUploadSession fires: deleteSession
GraceTimerFires ==
  /\ entry = "server" /\ graceTimers > 0 /\ deletePc["grace"] = "idle"
  /\ graceTimers' = graceTimers - 1
  /\ IF stored
       THEN DeleteBegin("grace")
       ELSE UNCHANGED <<cleanupTimer, deletePc>>
  /\ UNCHANGED <<stored, session, uploadDir, diskFiles, multerPc, multerFiles,
                 cancelBefore>>
  /\ lastResp' = NoResp
  /\ UNCHANGED <<entry, retryVars, sdkVars, mpVars, runVars>>

\* the timer armed by scheduleCleanup fires, SESSION_TTL plus some lag
\* after createSession read the clock: deleteSession only if the clock
\* is past expiresAt, and nothing else otherwise (the timer is one-shot)
ExpiryPassed(now, s) == now > s.expiresAt

TtlTimerFires ==
  /\ entry = "server" /\ cleanupTimer
  /\ \E lag \in 0..MaxTimerLag :
       IF stored /\ ExpiryPassed(SESSION_TTL + lag, session)
         THEN DeleteBegin("ttl")
         ELSE /\ cleanupTimer' = FALSE
              /\ UNCHANGED deletePc
  /\ UNCHANGED <<stored, session, uploadDir, diskFiles, graceTimers, multerPc,
                 multerFiles, cancelBefore>>
  /\ lastResp' = NoResp
  /\ UNCHANGED <<entry, retryVars, sdkVars, mpVars, runVars>>

\* ------------------------------------------------------------ Uploader.upload
\* upload() throws (after the awaited preprocessor cleanup): the catch of
\* processUploadSession sets 'failed' and adds the error, rethrows, and the
\* catch handler of the process route does the same again
\* slip: the status is set but the message is not recorded
SessionAfterFailure_StatusOnly(s) ==
  UpdateStatus(UpdateStatus(s, "failed"), "failed")

SessionAfterFailure(s) ==
  AddError(UpdateStatus(
    AddError(UpdateStatus(s, "failed"), "error.message"), "failed"),
    "error.message")

RunFails ==
  /\ runPc' = "rejected"
  /\ session' = SessionAfterFailure(session)
  /\ UNCHANGED graceTimers

\* upload() returns: processUploadSession sets 'completed' and arms the
\* 5-minute deletion timer
SessionAfterSuccess(s) == UpdateStatus(s, "completed")

RunSucceeds ==
  /\ runPc' = "resolved"
  /\ session' = SessionAfterSuccess(session)
  /\ graceTimers' = graceTimers + 1

\* a run started while another was unsettled settles
OtherRunSettles ==
  /\ entry = "server" /\ otherRuns > 0
  /\ otherRuns' = otherRuns - 1
  /\ \E ok \in BOOLEAN :
       IF ok THEN /\ session' = SessionAfterSuccess(session)
                  /\ graceTimers' = graceTimers + 1
             ELSE /\ session' = SessionAfterFailure(session)
                  /\ UNCHANGED graceTimers
  /\ UNCHANGED <<stored, uploadDir, diskFiles, cleanupTimer, multerPc,
                 multerFiles, deletePc, cancelBefore>>
  /\ lastResp' = NoResp
  /\ UNCHANGED <<runsStarted, runPc, runDryRun, runParallelUploads, tasks, taskQueue, twtask,
                 twstep, hasErrors, runFinalizeCalls, runReports, taskAttempts,
                 taskClaimedBy>>
  /\ UNCHANGED <<entry, retryVars, sdkVars, mpVars>>

\* scanDirectory settles; on success the reports of scanFiles and
\* preprocessFiles follow and the preprocessor is awaited
ScanSettles ==
  /\ entry = "server" /\ runPc = "scanFiles"
  /\ \E ok \in BOOLEAN :
       IF ok /\ uploadDir
         THEN /\ runPc' = "preprocessFiles"
              /\ tasks' = IF diskFiles = 0 THEN <<>>
                           ELSE [t \in 1..diskFiles |-> "scanned"]
              /\ runReports' = runReports \o <<"scanning", "preprocessing">>
              /\ UNCHANGED session
              /\ UNCHANGED graceTimers
         ELSE /\ RunFails
              /\ UNCHANGED <<tasks, runReports>>
  /\ UNCHANGED <<stored, uploadDir, diskFiles, cleanupTimer, multerPc,
                 multerFiles, deletePc, cancelBefore>>
  /\ lastResp' = NoResp
  /\ UNCHANGED <<runsStarted, otherRuns, runDryRun, runParallelUploads, taskQueue, twtask, twstep, hasErrors,
                 runFinalizeCalls, taskAttempts, taskClaimedBy>>
  /\ UNCHANGED <<entry, retryVars, sdkVars, mpVars>>

\* preprocessor.run settles; a dry run returns here, otherwise
\* initializeBatch issues client.initBatch
PreprocessSettles ==
  /\ entry = "server" /\ runPc = "preprocessFiles"
  /\ \E ok \in BOOLEAN :
       /\ runReports' = IF ok THEN Append(runReports, "preprocessing")
                             ELSE runReports
       /\ IF ~ok THEN RunFails
          ELSE IF runDryRun THEN RunSucceeds
          ELSE /\ runPc' = "initializeBatch"
               /\ UNCHANGED session
               /\ UNCHANGED graceTimers
  /\ UNCHANGED <<stored, uploadDir, diskFiles, cleanupTimer, multerPc,
                 multerFiles, deletePc, cancelBefore>>
  /\ lastResp' = NoResp
  /\ UNCHANGED <<runsStarted, otherRuns, runDryRun, runParallelUploads, tasks, taskQueue, twtask, twstep,
                 hasErrors, runFinalizeCalls, taskAttempts, taskClaimedBy>>
  /\ UNCHANGED <<entry, retryVars, sdkVars, mpVars>>

\* client.initBatch settles; on success the 1 s propagation delay is awaited
InitializeBatchSettles ==
  /\ entry = "server" /\ runPc = "initializeBatch"
  /\ \E ok \in BOOLEAN :
       IF ok
         THEN /\ runPc' = "initDelay"
              /\ UNCHANGED <<session, graceTimers>>
         ELSE RunFails
  /\ UNCHANGED runReports
  /\ UNCHANGED <<stored, uploadDir, diskFiles, cleanupTimer, multerPc,
                 multerFiles, deletePc, cancelBefore>>
  /\ lastResp' = NoResp
  /\ UNCHANGED <<runsStarted, otherRuns, runDryRun, runParallelUploads, tasks, taskQueue, twtask, twstep,
                 hasErrors, runFinalizeCalls, taskAttempts, taskClaimedBy>>
  /\ UNCHANGED <<entry, retryVars, sdkVars, mpVars>>

\* Math.min(this.config.parallelUploads, context.tasks.length)
TaskSpawnCount == Min(runParallelUploads, Len(tasks))

\* the delay is over: initializeBatch builds the pending tasks, uploadFiles
\* reports 'uploading' and starts its workers; each uploadWorker() runs
\* down to the first await of uploadFile, so worker i shifts task i and
\* sets it 'uploading'
UploadFilesStart ==
  /\ entry = "server" /\ runPc = "initDelay"
  /\ runPc' = "uploading"
  /\ runReports' = Append(runReports, "uploading")
  /\ UNCHANGED session
  /\ tasks' = IF tasks = <<>> THEN <<>>
               ELSE [t \in 1..Len(tasks) |->
                       IF t <= TaskSpawnCount THEN "uploading" ELSE "pending"]
  /\ taskQueue' = FromTo(TaskSpawnCount, Len(tasks))
  /\ twtask' = [w \in TaskWorkers |-> IF w <= TaskSpawnCount THEN w ELSE 0]
  /\ twstep' = [w \in TaskWorkers |->
                  IF w <= TaskSpawnCount THEN "uploadFile" ELSE "unspawned"]
  /\ taskAttempts' = [t \in TaskIds |-> IF t <= TaskSpawnCount THEN 1 ELSE 0]
  /\ taskClaimedBy' = [t \in TaskIds |->
                         IF t <= TaskSpawnCount THEN {t} ELSE {}]
  /\ UNCHANGED <<stored, uploadDir, diskFiles, cleanupTimer, graceTimers,
                 multerPc, multerFiles, deletePc, cancelBefore>>
  /\ lastResp' = NoResp
  /\ UNCHANGED <<runsStarted, otherRuns, runDryRun, runParallelUploads, hasErrors, runFinalizeCalls>>
  /\ UNCHANGED <<entry, retryVars, sdkVars, mpVars>>

\* slip: the catch of uploadFile puts a failed task back to 'pending'
UploadWorkerLoop_FailedToPending(w, st) ==
  LET left == IF st = "failed" THEN "pending" ELSE st IN
  IF taskQueue # <<>>
    THEN LET t == Head(taskQueue) IN
         /\ taskQueue' = Tail(taskQueue)
         /\ twtask' = [twtask EXCEPT ![w] = t]
         /\ twstep' = [twstep EXCEPT ![w] = "uploadFile"]
         /\ tasks' = [tasks EXCEPT ![twtask[w]] = left, ![t] = "uploading"]
         /\ taskAttempts' = [taskAttempts EXCEPT ![t] = @ + 1]
         /\ taskClaimedBy' = [taskClaimedBy EXCEPT ![t] = @ \cup {w}]
    ELSE /\ twtask' = [twtask EXCEPT ![w] = 0]
         /\ twstep' = [twstep EXCEPT ![w] = "exited"]
         /\ tasks' = [tasks EXCEPT ![twtask[w]] = left]
         /\ UNCHANGED <<taskQueue, taskAttempts, taskClaimedBy>>

\* uploadWorker: while (queue.length > 0) { task = queue.shift(); ... } for
\* worker w after its task settled with status st
UploadWorkerLoop(w, st) ==
  IF taskQueue # <<>>
    THEN LET t == Head(taskQueue) IN
         /\ taskQueue' = Tail(taskQueue)
         /\ twtask' = [twtask EXCEPT ![w] = t]
         /\ twstep' = [twstep EXCEPT ![w] = "uploadFile"]
         /\ tasks' = [tasks EXCEPT ![twtask[w]] = st, ![t] = "uploading"]
         /\ taskAttempts' = [taskAttempts EXCEPT ![t] = @ + 1]
         /\ taskClaimedBy' = [taskClaimedBy EXCEPT ![t] = @ \cup {w}]
    ELSE /\ twtask' = [twtask EXCEPT ![w] = 0]
         /\ twstep' = [twstep EXCEPT ![w] = "exited"]
         /\ tasks' = [tasks EXCEPT ![twtask[w]] = st]
         /\ UNCHANGED <<taskQueue, taskAttempts, taskClaimedBy>>

\* the awaited uploadFile of worker w returns: it has set the task
\* 'completed'; the worker reports progress and goes round its loop
TaskCompleted(w) ==
  /\ entry = "server" /\ runPc = "uploading"
  /\ twstep[w] = "uploadFile"
  /\ UploadWorkerLoop(w, "completed")
  /\ runReports' = Append(runReports, "uploading")
  /\ UNCHANGED session
  /\ UNCHANGED <<runsStarted, otherRuns, runPc, runDryRun, runParallelUploads, hasErrors, runFinalizeCalls>>
  /\ UNCHANGED <<stored, uploadDir, diskFiles, cleanupTimer, graceTimers,
                 multerPc, multerFiles, deletePc, cancelBefore>>
  /\ lastResp' = NoResp
  /\ UNCHANGED <<entry, retryVars, sdkVars, mpVars>>

\* the awaited uploadFile of worker w throws: it has set the task 'failed';
\* the catch of uploadWorker sets hasErrors and the worker goes round its
\* loop
TaskFailed(w) ==
  /\ entry = "server" /\ runPc = "uploading"
  /\ twstep[w] = "uploadFile"
  /\ UploadWorkerLoop(w, "failed")
  /\ hasErrors' = TRUE
  /\ UNCHANGED runReports
  /\ UNCHANGED <<runsStarted, otherRuns, runPc, runDryRun, runParallelUploads, runFinalizeCalls>>
  /\ UNCHANGED <<stored, session, uploadDir, diskFiles, cleanupTimer,
                 graceTimers, multerPc, multerFiles, deletePc, cancelBefore>>
  /\ lastResp' = NoResp
  /\ UNCHANGED <<entry, retryVars, sdkVars, mpVars>>

\* whether uploadFiles throws once every worker has finished
UploadFilesThrows == hasErrors

\* Promise.all(inProgress) resolves: uploadFiles throws if hasErrors,
\* otherwise finalizeBatch reports 'finalizing' and issues
\* client.finalizeBatch
TaskUploadsSettled ==
  /\ entry = "server" /\ runPc = "uploading"
  /\ \A w \in TaskWorkers : twstep[w] \in {"unspawned", "exited"}
  /\ IF UploadFilesThrows
       THEN /\ RunFails
            /\ UNCHANGED <<runFinalizeCalls, runReports>>
       ELSE /\ runPc' = "finalizeBatch"
            /\ runReports' = Append(runReports, "finalizing")
            /\ UNCHANGED session
            /\ runFinalizeCalls' = runFinalizeCalls + 1
            /\ UNCHANGED graceTimers
  /\ UNCHANGED <<stored, uploadDir, diskFiles, cleanupTimer, multerPc,
                 multerFiles, deletePc, cancelBefore>>
  /\ lastResp' = NoResp
  /\ UNCHANGED <<runsStarted, otherRuns, runDryRun, runParallelUploads, tasks, taskQueue, twtask, twstep,
                 hasErrors, taskAttempts, taskClaimedBy>>
  /\ UNCHANGED <<entry, retryVars, sdkVars, mpVars>>

\* client.finalizeBatch settles
FinalizeBatchSettles ==
  /\ entry = "server" /\ runPc = "finalizeBatch"
  /\ \E ok \in BOOLEAN : IF ok THEN RunSucceeds ELSE RunFails
  /\ UNCHANGED runReports
  /\ UNCHANGED <<stored, uploadDir, diskFiles, cleanupTimer, multerPc,
                 multerFiles, deletePc, cancelBefore>>
  /\ lastResp' = NoResp
  /\ UNCHANGED <<runsStarted, otherRuns, runDryRun, runParallelUploads, tasks, taskQueue, twtask, twstep,
                 hasErrors, runFinalizeCalls, taskAttempts, taskClaimedBy>>
  /\ UNCHANGED <<entry, retryVars, sdkVars, mpVars>>

NextServer ==
  \/ InitRequest
  \/ FilesRequestMulter
  \/ FilesRequestHandle
  \/ ProcessRequest
  \/ CancelRequest
  \/ \E c \in DeleteCallers : RemoveUploadDir(c)
  \/ \E c \in DeleteCallers : DeleteFinish(c)
  \/ GraceTimerFires
  \/ TtlTimerFires
  \/ ScanSettles
  \/ PreprocessSettles
  \/ InitializeBatchSettles
  \/ UploadFilesStart
  \/ \E w \in TaskWorkers : TaskCompleted(w)
  \/ \E w \in TaskWorkers : TaskFailed(w)
  \/ TaskUploadsSettled
  \/ FinalizeBatchSettles
  \/ OtherRunSettles

Next == NextSdk \/ NextMultipart \/ NextServer \/ NextRetry

Spec == Init /\ [][Next]_vars

\* one entry point at a time
InitSdkOnly == InitSdk /\ MpUnused /\ SrvIdle /\ RetryUnused

SpecSdk == InitSdkOnly /\ [][NextSdk]_vars

InitMultipartOnly == InitMultipart /\ SdkUnused /\ SrvIdle /\ RetryUnused

SpecMultipart == InitMultipartOnly /\ [][NextMultipart]_vars

InitServerOnly == InitServer /\ SdkUnused /\ MpUnused /\ RetryUnused

SpecServer == InitServerOnly /\ [][NextServer]_vars

InitRetryOnly == InitRetry /\ SdkUnused /\ MpUnused /\ SrvIdle

SpecRetry == InitRetryOnly /\ [][NextRetry]_vars

\* the two schedulers of the client: files and parts
InitSchedulers == InitSdkOnly \/ InitMultipartOnly

NextSchedulers == NextSdk \/ NextMultipart

SpecSchedulers == InitSchedulers /\ [][NextSchedulers]_vars

\* ------------------------------------------------------------------ claims
CompletedFiles == {f \in FileIds : fileState[f] = "completed"}

FailedFileSet == {f \in FileIds : fileState[f] = "failed"}

\* uploadFilesWithConcurrency ran and has returned
UploadPhaseOver == entry = "sdk" /\ startOrder # <<>> /\ phase # "uploading"

\* C1: when every file of a batch fails, finalizeBatch is never called and
\* uploadBatch rejects: the batch ends failed, no BatchResult is returned.
C1_AllFailedNeverFinalizes ==
  (entry = "sdk" /\ Len(files) > 0 /\ FailedFileSet = FileIds) =>
     /\ finalizeCalls = 0
     /\ phase \in {"uploading", "failed"}
     /\ result.kind # "returned"
     /\ (phase = "failed" => result.kind = "rejected")

C1_Witness ==
  /\ entry = "sdk" /\ Len(files) >= 2 /\ FailedFileSet = FileIds
  /\ phase = "failed" /\ result.kind = "rejected"

\* C2: when at least one file completes and at least one fails, finalizeBatch
\* is called exactly once, after the upload phase and not during it, and
\* the BatchResult uploadBatch returns counts the completed files only.
C2_PartialFailureFinalizesOnce ==
  /\ (entry = "sdk" /\ phase = "uploading" => finalizeCalls = 0)
  /\ (UploadPhaseOver /\ CompletedFiles # {} /\ FailedFileSet # {}) =>
        /\ finalizeCalls = 1
        /\ phase \in {"finalizing", "complete", "failed"}
        /\ (phase = "finalizing" => result.kind = "pending")
        /\ (phase = "complete" =>
              result = [kind |-> "returned",
                        filesUploaded |-> Cardinality(CompletedFiles),
                        bytesUploaded |-> SumSizes(files, CompletedFiles)])

C2_Witness ==
  /\ entry = "sdk" /\ phase = "complete" /\ result.kind = "returned"
  /\ Cardinality(CompletedFiles) = 2 /\ Cardinality(FailedFileSet) = 1
  /\ finalizeCalls = 1

TasksWith(st) == {t \in 1..Len(tasks) : tasks[t] = st}

RunSettled == entry = "server" /\ runPc \in {"resolved", "rejected"}

\* client.finalizeBatch was issued and the run rejected: the only call
\* awaited after it is finalizeBatch itself
RunFinalizeFailed == runPc = "rejected" /\ runFinalizeCalls = 1

\* C3: when some but not all files of a session's batch run fail, the batch
\* is still finalized and, unless finalizeBatch itself fails, the run
\* resolves and the session is completed, not failed.
C3_PartialFailureStillCompletes ==
  (RunSettled /\ TasksWith("completed") # {} /\ TasksWith("failed") # {}) =>
     /\ runFinalizeCalls = 1
     /\ (runPc = "resolved" \/ RunFinalizeFailed)
     /\ (stored /\ runsStarted = 1 /\ ~RunFinalizeFailed =>
           session.status = "completed")

\* uploadFiles of the followed run started its workers and all have returned
ServerUploadDone ==
  /\ entry = "server"
  /\ runPc \in {"uploading", "finalizeBatch", "resolved", "rejected"}
  /\ \A w \in TaskWorkers : twstep[w] \in {"unspawned", "exited"}
  /\ \A t \in 1..Len(tasks) : tasks[t] # "scanned"

\* C4: every file is shifted off the queue by exactly one worker and
\* attempted exactly once; a failure is recorded for the failing file only
\* and once, and every other file is still attempted (client and server).
C4_EachFileClaimedOnce ==
  /\ \A f \in 1..MaxFiles :
       /\ attempts[f] <= 1 /\ Cardinality(claimedBy[f]) = attempts[f]
  /\ Len(failedFiles) = Cardinality(Range(failedFiles))
  /\ Range(failedFiles) = FailedFileSet
  /\ (entry = "sdk" /\ startOrder # <<>> /\ AllWorkersExited) =>
       \A f \in FileIds :
         attempts[f] = 1 /\ fileState[f] \in {"completed", "failed"}
  /\ \A t \in TaskIds :
       /\ taskAttempts[t] <= 1 /\ Cardinality(taskClaimedBy[t]) = taskAttempts[t]
  /\ (entry = "server" /\ runPc = "uploading") =>
       (hasErrors <=> TasksWith("failed") # {})
  /\ ServerUploadDone =>
       \A t \in 1..Len(tasks) :
         taskAttempts[t] = 1 /\ tasks[t] \in {"completed", "failed"}

C4_Witness ==
  /\ entry = "sdk" /\ Len(files) = 3 /\ parallelUploads = 2
  /\ AllWorkersExited /\ failedFiles = <<1>>
  /\ CompletedFiles = {2, 3}
  /\ \A f \in FileIds : attempts[f] = 1

PartNumbers(ps) == [i \in 1..Len(ps) |-> ps[i].part_number]

\* C6: when a multipart upload over N URLs succeeds, the list uploadMultipart
\* returns and the list sent in completeFileUpload have the part numbers
\* 1, 2, ..., N in this order, whatever order the parts completed in.
C6_PartsAscendingContiguous ==
  (entry = "multipart" /\ mpPhase \in {"completing", "resolved"}) =>
     /\ PartNumbers(mpReturned) = FromTo(0, numParts)
     /\ PartNumbers(completeRequest) = FromTo(0, numParts)

C6_Witness ==
  /\ entry = "multipart" /\ mpPhase = "resolved" /\ numParts >= 3
  /\ PartNumbers(parts) # FromTo(0, numParts)
  /\ PartNumbers(completeRequest) = FromTo(0, numParts)

InFlightFiles == {w \in Workers : Busy(w)}

InFlightParts == {w \in PartWorkers : pwstate[w] = "running"}

\* C7: never more than parallelUploads files in flight in a batch nor more
\* than parallelParts parts in flight in a multipart upload; files and
\* parts start in queue order, and while the file queue is not empty every
\* worker slot is in use.
C7_BoundedInFlightQueueOrder ==
  /\ Cardinality(InFlightFiles) <= Concurrency
  /\ Cardinality(InFlightParts) <= PartConcurrency
  /\ startOrder = FromTo(0, Len(startOrder))
  /\ partStartOrder = FromTo(0, Len(partStartOrder))
  /\ (phase = "uploading" => queue = FromTo(Len(startOrder), Len(files)))
  /\ (mpPhase # "idle" => partQueue = FromTo(Len(partStartOrder), numParts))
  /\ (queue # <<>> => Cardinality(InFlightFiles) = Concurrency)
  /\ (partQueue # <<>> =>
        Cardinality({w \in PartWorkers : pwstate[w] \in {"running", "threw"}})
          = PartConcurrency)

C7_Witness ==
  /\ entry = "sdk" /\ Len(files) = 3 /\ parallelUploads = 2
  /\ Cardinality(InFlightFiles) = 2 /\ startOrder = <<1, 2, 3>>

FilesAccepting == {"initialized", "receiving", "ready"}

\* C8: a files upload is accepted only for a session that is initialized,
\* receiving or ready; for a session in any other status the answer is the
\* conflict 409.
C8_FilesOnlyWhenAccepting ==
  (lastResp.op = "files" /\ lastResp.before # "absent") =>
     /\ (lastResp.code = 200 => lastResp.before \in FilesAccepting)
     /\ (lastResp.before \notin FilesAccepting => lastResp.code = 409)

NonTerminal == {"initialized", "receiving", "ready", "processing"}

C9_Step ==
  /\ (lastResp'.op = "cancel" /\ lastResp'.before \in NonTerminal) =>
        /\ lastResp'.code = 200 /\ lastResp'.status = "cancelled"
        /\ deletePc["cancel"] = "rmDone"
        /\ ~stored'
  /\ (deletePc["cancel"] = "rm" /\ deletePc'["cancel"] = "rmDone") =>
        (~uploadDir' /\ diskFiles' = 0)
  /\ (deletePc["cancel"] = "idle" /\ deletePc'["cancel"] = "rm"
        /\ session.status = "processing") => session'.status = "cancelled"

C10_CancelCompletedRejected ==
  (lastResp.op = "cancel" /\ lastResp.before = "completed") =>
     (lastResp.code # 200 /\ lastResp.status # "cancelled")

\* number of runs of the session that have not settled
ActiveRuns == (IF RunActive THEN 1 ELSE 0) + otherRuns

\* C11: a process trigger on a processing or completed session is refused
\* and starts no run; consequently at most one batch run of the session is
\* active at any time.
C11_AtMostOneActiveRun ==
  entry = "server" => ActiveRuns <= 1

\* C12: over the whole lifetime of a session at most one batch upload run
\* is ever started for it (processUploadSession is called at most once).
C12_AtMostOneRunEver ==
  entry = "server" => runsStarted <= 1

\* the one-shot TTL timer has fired or was cleared, and no deleteSession
\* call is under way
ExpirySweepOver ==
  /\ entry = "server" /\ Created /\ ~cleanupTimer
  /\ \A c \in DeleteCallers : deletePc[c] = "idle"

\* C13: the expiry of a session is creation time + 24 h and is never
\* changed; once the expiry sweep has run, the session is deleted from the
\* store, whatever its status.
C13_ExpiryFixedAndSwept ==
  /\ stored => session.expiresAt = SESSION_TTL
  /\ ExpirySweepOver => ~stored

\* C14: when the batch run of a session succeeds the status becomes
\* completed and a deletion is scheduled 5 minutes later: as long as that
\* timer has not fired the session is in the store with status completed,
\* and once it has fired and its deleteSession is over, the session and
\* its upload directory are gone.
C14_CompletedUntilGraceTimer ==
  entry = "server" =>
    /\ graceTimers > 0 => (stored /\ session.status = "completed")
    /\ (runPc = "resolved" /\ graceTimers = 0
          /\ deletePc["grace"] = "idle") => (~stored /\ ~uploadDir)

\* the entries that a step appends to the error list of the session
NewErrors == SubSeq(session'.errors, Len(session.errors) + 1,
                    Len(session'.errors))

C15_Step ==
  /\ runsStarted' = runsStarted + 1 =>
        lastResp' = Resp("process", 200, "processing", session.status)
  /\ (runPc # "rejected" /\ runPc' = "rejected") =>
        /\ lastResp' = NoResp
        /\ stored' = stored /\ uploadDir' = uploadDir
        /\ diskFiles' = diskFiles /\ graceTimers' = graceTimers
        /\ stored =>
             /\ session'.status = "failed"
             /\ SubSeq(session'.errors, 1, Len(session.errors))
                  = session.errors
             /\ NewErrors # <<>>
             /\ \A i \in DOMAIN NewErrors : NewErrors[i] = "error.message"
             /\ session' = [session EXCEPT !.status = "failed",
                                           !.errors = session'.errors]

\* C15: the trigger that starts a run is answered with status processing,
\* and a later failure of the run sends no answer: it only sets the status
\* of the stored session to failed and appends the error message to its
\* error list.
C15_RunFailureOnlyInSession == [][C15_Step]_vars

C15_Witness ==
  /\ entry = "server" /\ runPc = "rejected" /\ runsStarted = 1
  /\ stored /\ session.status = "failed"
  /\ session.errors # <<>> /\ lastResp = NoResp

\* a step in which a worker of the run takes a task from the queue and
\* starts its uploadFile
DispatchesFile == \E t \in TaskIds : taskAttempts'[t] > taskAttempts[t]

\* C16: once a processing session has been cancelled, its run dispatches
\* no new file upload; only the uploads already in flight settle.
C16_NoDispatchAfterCancel ==
  [][(entry = "server" /\ session.status = "cancelled") => ~DispatchesFile]_vars

\* retryWithBackoff has settled
RetrySettled == rPc \in {"returned", "thrown"}

\* C17: retryWithBackoff calls the operation at most maxRetries + 1 times;
\* it returns at the first success, every call before it having failed;
\* once the operation has failed maxRetries + 1 times it rejects with the
\* error of the last call; with maxRetries = 0 the operation is called
\* exactly once and nothing is slept.
C17_AtMostMaxRetriesPlusOne ==
  entry = "retry" =>
    /\ rCalls <= opts.maxRetries.v + 1
    /\ rPc = "returned" =>
         (rFnError = NoError /\ rCalls = Len(rDelays) + 1)
    /\ (rPc \in {"sleep", "thrown"} /\ rCalls = opts.maxRetries.v + 1) =>
         (rPc = "thrown" /\ rThrown = rFnError /\ rThrown # NoError
            /\ Len(rDelays) = opts.maxRetries.v)
    /\ (RetrySettled /\ opts.maxRetries.v = 0) =>
         (rCalls = 1 /\ rDelays = <<>>)

C17_Witness ==
  /\ entry = "retry" /\ rPc = "thrown" /\ opts.maxRetries.v = 2
  /\ rCalls = 3 /\ Len(rDelays) = 2
  /\ rThrown = SystemError("ECONNRESET")

PutCallers == {"uploadSimple", "uploadPart"}

\* C18: a simple or part transfer whose PUT fails (non-2xx status,
\* transport failure, or for a part a 2xx answer without ETag) is tried
\* again, maxRetries more times, before the transfer fails, and then it
\* fails with an UploadError.
C18_FailedPutIsRetried ==
  (entry = "retry" /\ rCaller \in PutCallers /\ rPc = "thrown") =>
     (rThrown.cls = "UploadError" /\ rCalls = opts.maxRetries.v + 1)

\* the outcomes of a coordinating-service request for which the claim
\* expects another request: status >= 500, a timeout, a transport failure,
\* and 429 with a Retry-After header
WorkerRetryExpected(o) ==
  \/ o.kind \in {"transport", "abort"}
  \/ o.kind = "response" /\ o.status >= 500
  \/ o.kind = "response" /\ o.status = 429 /\ o.hasRetryAfter

\* C19: a coordinating-service call is retried when the answer has status
\* >= 500 or the request times out or fails at transport level; on a 4xx
\* status it fails after exactly one request, except that a 429 answer
\* with Retry-After is retried.  (Answers whose body is JSON.)
C19_WorkerCallRetryPolicy ==
  (entry = "retry" /\ rCaller = "WorkerClient" /\ opts.maxRetries.v > 0
     /\ rCalls = 1 /\ rPc \in {"sleep", "thrown"}
     /\ (rLastOutcome.kind = "response" => rLastOutcome.json)) =>
     (rPc = "sleep" <=> WorkerRetryExpected(rLastOutcome))

\* the failed attempt met a 429 answer with the header Retry-After: N
RateLimited(o) ==
  o.kind = "response" /\ o.status = 429 /\ o.hasRetryAfter /\ o.retryAfter > 0

\* C20: when an attempt of a transfer fails with 429 and Retry-After: N,
\* the transfer is retried and the delay before the next attempt is, before
\* jitter, min(N * 1000, maxDelay), whatever initialDelay and the attempt
\* index.
C20_RetryAfterDelay ==
  (entry = "retry" /\ rCaller \in PutCallers /\ opts.maxRetries.v > 0
     /\ rCalls = 1 /\ rPc \in {"sleep", "thrown"}
     /\ RateLimited(rLastOutcome)) =>
     /\ rPc = "sleep"
     /\ rDelays[Len(rDelays)].base
          = JsMin(Num(rLastOutcome.retryAfter * 1000), opts.maxDelay)

\* C21: when retryInitialDelay, retryMaxDelay and retryJitter are not set in
\* the uploader configuration, a simple or part transfer runs its retry loop
\* with the defaults: initial delay 1000 ms, maximum delay 30000 ms, jitter
\* enabled.
C21_UnsetRetryOptionsUseDefaults ==
  (entry = "retry" /\ rCaller \in PutCallers /\ rPc # "idle") =>
     /\ (rGiven.initialDelay = Undef =>
           opts.initialDelay = Num(DefaultInitialDelay))
     /\ (rGiven.maxDelay = Undef => opts.maxDelay = Num(DefaultMaxDelay))
     /\ (rGiven.jitter = "undefined" => opts.jitter = "true")

\* positions of uploadBatch in the order of its code
PhaseRank(p) ==
  CASE p = "idle" -> 0
    [] p = "scanning" -> 1
    [] p = "initBatch" -> 2
    [] p = "uploading" -> 3
    [] p = "finalizing" -> 4
    [] p = "complete" -> 5
    [] OTHER -> 6

\* positions of Uploader.upload in the order of its code
RunRank(p) ==
  CASE p = "none" -> 0
    [] p = "scanFiles" -> 1
    [] p = "preprocessFiles" -> 2
    [] p = "initializeBatch" -> 3
    [] p = "initDelay" -> 4
    [] p = "uploading" -> 5
    [] p = "finalizeBatch" -> 6
    [] p = "resolved" -> 7
    [] OTHER -> 8

\* phases of the progress reports in the order of the batch states
ReportRank(p) ==
  CASE p = "scanning" -> 1
    [] p = "preprocessing" -> 2
    [] p = "uploading" -> 3
    [] p = "finalizing" -> 4
    [] p = "complete" -> 5
    [] OTHER -> 0

\* a sequence of reported phases never goes back
ReportsInOrder(r) ==
  \A i \in 1..Len(r) : \A j \in i..Len(r) : ReportRank(r[i]) <= ReportRank(r[j])

\* uploadBatch has settled
BatchOver == phase \in {"failed", "complete", "dryRunDone"}

\* the step starts a new run of Uploader.upload
NewRunStarts == runsStarted' # runsStarted /\ runPc' = "scanFiles"

\* C22: a batch run goes through scanning, initialization, uploading,
\* finalizing and complete in this order, one step at a time and never
\* back; it may fail at any step before complete, and failed is terminal;
\* the phases handed to the progress callback come in the same order, each
\* is the phase the run is in, and nothing is reported once the run failed
\* (client uploadBatch and server Uploader.upload).
C22_Step ==
  /\ entry = "sdk" =>
       /\ phase' # phase =>
            \/ phase' = "failed" /\ phase \in {"scanning", "initBatch", "uploading", "finalizing"}
            \/ phase' = "dryRunDone" /\ phase = "scanning"
            \/ PhaseRank(phase') = PhaseRank(phase) + 1 /\ PhaseRank(phase') <= 5
       /\ BatchOver => (phase' = phase /\ reports' = reports)
       /\ phase' = "failed" => reports' = reports
       /\ ReportsInOrder(reports')
       /\ reports' # reports =>
            /\ Len(reports') = Len(reports) + 1
            /\ reports'[Len(reports')] = phase'
  /\ (entry = "server" /\ ~NewRunStarts) =>
       /\ runPc' # runPc =>
            \/ runPc' = "rejected" /\ RunActive
            \/ RunActive /\ RunRank(runPc') = RunRank(runPc) + 1 /\ RunRank(runPc') <= 7
            \/ runPc = "preprocessFiles" /\ runDryRun /\ runPc' = "resolved"
       /\ ~RunActive => (runPc' = runPc /\ runReports' = runReports)
       /\ runPc' = "rejected" => runReports' = runReports
       /\ ReportsInOrder(runReports')

C22_BatchPhasesInOrder == [][C22_Step]_vars

C22_Witness ==
  /\ entry = "sdk" /\ phase = "failed" /\ finalizeCalls = 1
  /\ reports = <<"scanning", "uploading", "uploading", "finalizing">>

\* the step settles the upload of a file of the batch (client) or of a task
\* of the run (server)
FileOutcome ==
  \E f \in FileIds :
    fileState[f] = "inflight" /\ fileState'[f] \in {"completed", "failed"}

TaskOutcome ==
  \E t \in 1..Len(tasks) :
    tasks[t] = "uploading" /\ tasks'[t] \in {"completed", "failed"}

\* C23: on every per-file outcome, a file completing and also a file
\* failing, the progress callback is invoked in the same step, before the
\* worker takes its next file, with the recomputed counts of completed
\* files and uploaded bytes (client and server).
C23_Step ==
  /\ (entry = "sdk" /\ FileOutcome) =>
       /\ reports' = Append(reports, "uploading")
       /\ progress'.filesUploaded = Cardinality(CompletedFiles')
       /\ progress'.bytesUploaded = SumSizes(files, CompletedFiles')
  /\ (entry = "server" /\ TaskOutcome) =>
       runReports' = Append(runReports, "uploading")

C23_ProgressOnEveryOutcome == [][C23_Step]_vars

\* uploadBatch failed before its upload phase although files were found:
\* initBatch failed
SdkInitBatchFailed ==
  /\ entry = "sdk" /\ phase = "failed" /\ Len(files) > 0
  /\ "uploading" \notin Range(reports)

\* uploadBatch failed after finalizeBatch was issued: finalizeBatch failed
SdkFinalizeFailed == entry = "sdk" /\ phase = "failed" /\ finalizeCalls = 1

\* Uploader.upload rejected after preprocessing succeeded and before the
\* upload phase: client.initBatch failed
RunInitBatchFailed ==
  /\ entry = "server" /\ runPc = "rejected"
  /\ runReports = <<"scanning", "scanning", "preprocessing", "preprocessing">>

\* C24: when initBatch fails the batch fails and no startFileUpload, PUT,
\* completeFileUpload or finalizeBatch is issued for it; when finalizeBatch
\* fails the batch fails, with no result returned and no 'complete' phase,
\* even though files were completed (client and server).
C24_InitAndFinalizeFailuresAreFatal ==
  /\ SdkInitBatchFailed =>
       /\ result.kind = "rejected"
       /\ \A f \in 1..MaxFiles : attempts[f] = 0 /\ fileState[f] = "queued"
       /\ \A w \in Workers : wstep[w] = "unspawned"
       /\ startOrder = <<>> /\ finalizeCalls = 0
  /\ SdkFinalizeFailed =>
       /\ result.kind = "rejected"
       /\ "complete" \notin Range(reports) /\ progress.phase # "complete"
       /\ CompletedFiles # {}
  /\ RunInitBatchFailed =>
       /\ \A t \in TaskIds : taskAttempts[t] = 0
       /\ \A t \in 1..Len(tasks) : tasks[t] = "scanned"
       /\ \A w \in TaskWorkers : twstep[w] = "unspawned"
       /\ runFinalizeCalls = 0
  /\ (entry = "server" /\ RunFinalizeFailed) =>
       /\ "uploading" \in Range(runReports)
       /\ runReports[Len(runReports)] = "finalizing"
       /\ (runsStarted = 1 =>
             graceTimers = 0 /\ session.status # "completed")

C24_Witness ==
  /\ SdkFinalizeFailed /\ Cardinality(CompletedFiles) = 2
  /\ result.kind = "rejected"

\* the failed files whose error the ValidationError of an all-failed batch
\* names: `First error: ${failedFiles[0]?.error || 'Unknown'}`
ErrorsNamed(ff) == IF ff = <<>> THEN {} ELSE {ff[1]}

\* uploadBatch rejected because every file failed
AllFilesFailed ==
  /\ entry = "sdk" /\ phase = "failed" /\ Len(files) > 0
  /\ FailedFileSet = FileIds

\* C25: when every file of a batch fails, the failure with which the batch
\* ends names the error of every failed file.
C25_AllFailedListsEveryError ==
  AllFilesFailed => ErrorsNamed(failedFiles) = FailedFileSet

\* executeWithConcurrency has returned: uploadMultipart resolved or rejected
PartSchedulerReturned ==
  entry = "multipart" /\ mpPhase \in {"completing", "resolved", "rejected"}

\* C26: a scheduler call returns, resolving or rejecting, only once every
\* task of its queue has settled: when uploadFilesWithConcurrency or
\* executeWithConcurrency has returned, no task is running and none is left
\* in the queue.
C26_SchedulerReturnsWhenAllSettled ==
  /\ UploadPhaseOver => (AllWorkersExited /\ queue = <<>>)
  /\ PartSchedulerReturned => (InFlightParts = {} /\ partQueue = <<>>)

\* ceil(a / b) for a >= 0 and b >= 1
CeilDiv(a, b) == IF a % b = 0 THEN a \div b ELSE (a \div b) + 1

ChunkLen(c) == c.to - c.from

\* uploadMultipart has cut the content of a file of at least one byte for
\* at least one URL
ChunksCut == entry = "multipart" /\ mpPhase # "idle" /\ numParts >= 1

\* the chunks follow one another without gap or overlap from byte 0 to the
\* last byte
ChunksCoverOnce ==
  /\ Len(chunks) = numParts
  /\ chunks[1].from = 0 /\ chunks[numParts].to = mpSize
  /\ \A i \in 1..(numParts - 1) : chunks[i].to = chunks[i + 1].from
  /\ \A i \in 1..numParts : chunks[i].from <= chunks[i].to

\* chunk i starts at (i-1)*ceil(totalSize/N), every chunk but the last has
\* ceil(totalSize/N) bytes and the last has no more
ChunksEqualSize ==
  LET size == CeilDiv(mpSize, numParts) IN
  /\ \A i \in 1..numParts : chunks[i].from = (i - 1) * size
  /\ \A i \in 1..(numParts - 1) : ChunkLen(chunks[i]) = size
  /\ ChunkLen(chunks[numParts]) <= size

\* C27: for every size >= 1 and every number N >= 1 of URLs, uploadMultipart
\* cuts the content into N contiguous chunks that cover every byte exactly
\* once, chunk i starting at (i-1)*ceil(totalSize/N), all but the last of
\* ceil(totalSize/N) bytes and only the last possibly shorter.
C27_ChunksEqualSizeForAllInputs ==
  ChunksCut => (ChunksCoverOnce /\ ChunksEqualSize)

\* the N-1 chunks before the last fit into the content
ChunksFit == (numParts - 1) * CeilDiv(mpSize, numParts) <= mpSize

\* C27 (amended): for every size >= 1 and N >= 1 the N chunks are contiguous
\* and cover every byte exactly once; the offsets (i-1)*ceil(totalSize/N)
\* and the sizes (all but the last ceil(totalSize/N), the last no longer)
\* hold whenever (N-1)*ceil(totalSize/N) <= totalSize.
C27_ChunksPartition ==
  ChunksCut => (ChunksCoverOnce /\ (ChunksFit => ChunksEqualSize))

C27_Witness ==
  /\ ChunksCut /\ mpSize = 7 /\ numParts = 3
  /\ chunks = <<[from |-> 0, to |-> 3], [from |-> 3, to |-> 6],
                [from |-> 6, to |-> 7]>>

\* a part transfer of the multipart upload has failed for good
PartTransferFailed == \E w \in PartWorkers : pwstate[w] = "threw"

\* the step ends the PUT of worker w's file without going on to
\* completeFileUpload: the transfer (simple, or uploadMultipart) threw
TransferThrew(w) ==
  /\ wstep[w] = "put"
  /\ wstep'[w] # "completeFileUpload"
  /\ (wstep'[w] # "put" \/ wfile'[w] # wfile[w])

\* C28: when a part transfer of a multipart upload fails for good,
\* uploadMultipart rejects without returning a PartInfo list, no
\* completeFileUpload is sent for the file, and the batch counts the file
\* as failed, not as uploaded.
C28_Step ==
  /\ (entry = "multipart" /\ PartTransferFailed') =>
       /\ mpPhase' = "rejected"
       /\ mpReturned' = <<>> /\ completeRequest' = "none"
  /\ entry = "sdk" =>
       \A w \in Workers :
         TransferThrew(w) =>
           /\ fileState'[wfile[w]] = "failed"
           /\ failedFiles' = Append(failedFiles, wfile[w])
           /\ filesUploaded' = filesUploaded /\ bytesUploaded' = bytesUploaded

C28_PartFailureFailsFile == [][C28_Step]_vars

C28_Witness ==
  /\ entry = "multipart" /\ numParts = 3 /\ mpPhase = "rejected"
  /\ pwstate[2] = "threw" /\ Len(parts) = 2
  /\ mpReturned = <<>> /\ completeRequest = "none"

\* min(initialDelay * 2^a, maxDelay) for the numbers of the options in force
ExpectedBackoff(o, a) ==
  Num(Min(o.initialDelay.v * Pow2(a), o.maxDelay.v))

\* C29: with jitter disabled and no Retry-After hint, the delay slept before
\* retry a (0-based) is exactly min(initialDelay * 2^a, maxDelay), whatever
\* Math.random() returns: the same inputs give the same delay.
C29_BackoffWithoutJitter ==
  (entry = "retry" /\ opts.jitter = "false"
     /\ opts.initialDelay.k = "number" /\ opts.maxDelay.k = "number") =>
    \A i \in 1..Len(rDelays) :
      /\ rDelays[i].attempt = i - 1
      /\ ~rDelays[i].hint =>
           rDelays[i].slept = ExpectedBackoff(opts, rDelays[i].attempt)

C29_Witness ==
  /\ entry = "retry" /\ opts.jitter = "false" /\ Len(rDelays) = 2
  /\ opts.initialDelay = Num(1000) /\ opts.maxDelay = Num(1500)
  /\ rDelays[1].slept = Num(1000) /\ rDelays[2].slept = Num(1500)

\* the delays of a call whose options in force are numbers
DelaysAreNumbers ==
  /\ entry = "retry" /\ opts.maxDelay.k = "number"
  /\ \A i \in 1..Len(rDelays) :
       rDelays[i].base.k = "number" /\ rDelays[i].slept.k = "number"

BelowCeiling(i) == rDelays[i].base.v < opts.maxDelay.v

\* C31: for every retry sequence, with any initialDelay, maxDelay and jitter
\* setting and with any server hints, the delays slept before successive
\* attempts never decrease from one attempt to a later one as long as the
\* maxDelay ceiling is not reached.
C31_DelaysNonDecreasing ==
  DelaysAreNumbers =>
    \A i \in 1..Len(rDelays) : \A j \in (i + 1)..Len(rDelays) :
      (BelowCeiling(i) /\ BelowCeiling(j)) =>
        rDelays[i].slept.v <= rDelays[j].slept.v

\* C31 (amended): the delays computed by the exponential formula, for
\* failures without a server hint, never decrease from one attempt to a
\* later one as long as the maxDelay ceiling is not reached, with any
\* initialDelay, maxDelay and jitter setting; a delay taken from a server
\* hint may be smaller than an earlier delay or larger than a later one.
C31_BackoffDelaysNonDecreasing ==
  DelaysAreNumbers =>
    \A i \in 1..Len(rDelays) : \A j \in (i + 1)..Len(rDelays) :
      (BelowCeiling(i) /\ BelowCeiling(j)
         /\ ~rDelays[i].hint /\ ~rDelays[j].hint) =>
        rDelays[i].slept.v <= rDelays[j].slept.v

C31_Witness ==
  /\ entry = "retry" /\ opts.jitter = "true" /\ opts.maxDelay = Num(1500)
  /\ Len(rDelays) = 2 /\ ~rDelays[1].hint /\ ~rDelays[2].hint
  /\ rDelays[1].base = Num(250) /\ rDelays[1].slept = Num(281)
  /\ rDelays[2].base = Num(500) /\ rDelays[2].slept = Num(375)

\* the workers of uploadFiles that hold task t
TaskHolders(t) == {w \in TaskWorkers : twtask[w] = t}

\* the statuses task t may take in one step from status st ("scanned": the
\* UploadTask is not built yet; initializeBatch builds it 'pending')
TaskStatusAfter(st) ==
  CASE st = "scanned" -> {"scanned", "pending", "uploading"}
    [] st = "pending" -> {"pending", "uploading"}
    [] st = "uploading" -> {"uploading", "completed", "failed"}
    [] OTHER -> {st}

\* C32: in the batch orchestrator the status of every UploadTask changes only
\* along pending -> uploading -> completed or pending -> uploading -> failed;
\* completed and failed are final; a task is set to uploading by exactly one
\* worker, and only the worker that holds a task changes it, so no two
\* workers change the same task.
C32_Step ==
  (entry = "server" /\ ~NewRunStarts) =>
    /\ Len(tasks') = Len(tasks) \/ tasks = <<>>
    /\ \A t \in 1..Len(tasks) :
         /\ tasks'[t] \in TaskStatusAfter(tasks[t])
         /\ Cardinality(TaskHolders(t)) <= 1
         /\ (tasks[t] # "uploading" /\ tasks'[t] = "uploading") =>
              /\ Cardinality(TaskHolders(t)') = 1
              /\ taskClaimedBy'[t] = TaskHolders(t)'
              /\ taskAttempts'[t] = 1
         /\ (tasks[t] = "uploading" /\ tasks'[t] # "uploading") =>
              /\ Cardinality(TaskHolders(t)) = 1
              /\ taskClaimedBy[t] = TaskHolders(t)
              /\ twstep[CHOOSE w \in TaskHolders(t) : TRUE] = "uploadFile"
         /\ tasks[t] \in {"uploading", "completed", "failed"} =>
              (Cardinality(taskClaimedBy'[t]) = 1 /\ taskAttempts'[t] = 1)

C32_TaskStatusLifecycle == [][C32_Step]_vars

C32_Witness ==
  /\ entry = "server" /\ tasks = <<"completed", "failed">>
  /\ taskClaimedBy = <<{1}, {1}>> /\ taskAttempts = <<1, 1>>

\* C33: within one multipart upload, once a part transfer has failed for
\* good, no part transfer that had not started yet is started afterwards:
\* the parts still in the queue are never PUT.
C33_Step ==
  (entry = "multipart" /\ PartTransferFailed) =>
    (partStartOrder' = partStartOrder /\ partQueue' = partQueue)

C33_NoPartStartedAfterFailure == [][C33_Step]_vars

\* finalizeBatch of the batch has been issued
FinalizeIssued == entry = "sdk" /\ finalizeCalls >= 1

\* completeFileUpload of the multipart file has been issued: it is awaited,
\* or it has settled (a rejection without a part that threw is its own)
CompleteFileUploadIssued ==
  /\ entry = "multipart"
  /\ \/ mpPhase \in {"completing", "resolved"}
     \/ mpPhase = "rejected" /\ ~PartTransferFailed

\* every PUT of the multipart file has succeeded: each part has pushed its
\* PartInfo and no part worker is running or has thrown
AllPartsPut ==
  /\ Len(parts) = numParts
  /\ \A w \in PartWorkers : pwstate[w] \in {"unspawned", "exited"}

\* C34: from the moment finalizeBatch is issued for a batch, no storage PUT
\* and no startFileUpload or completeFileUpload call of that batch is in
\* flight (so none is issued afterwards either); and completeFileUpload is
\* issued for a file only after every PUT of that file has succeeded.
C34_FinalizeAfterAllCalls ==
  /\ FinalizeIssued =>
       (InFlightFiles = {} /\ queue = <<>> /\ strayPuts = 0)
  /\ CompleteFileUploadIssued => AllPartsPut

TerminalStatuses == {"completed", "failed", "cancelled"}

\* C35: terminal session statuses are absorbing: once the status of a
\* session is completed, failed or cancelled, no later files request,
\* process request, progress update or outcome of a batch run changes it to
\* another status, as long as the session is not deleted.
C35_Step ==
  (entry = "server" /\ stored /\ stored'
     /\ session.status \in TerminalStatuses) =>
    session'.status = session.status

C35_TerminalStatusAbsorbing == [][C35_Step]_vars

\* the step is the failure of a batch run of the session: of the run
\* followed step by step, or of a concurrent one (a successful run arms a
\* grace timer, a failed one does not)
RunFailsNow ==
  /\ entry = "server"
  /\ \/ runPc # "rejected" /\ runPc' = "rejected"
     \/ otherRuns' = otherRuns - 1 /\ graceTimers' = graceTimers

\* C36: each failed batch run of a session appends exactly one entry to the
\* error list of that session: after the failure the list is one message
\* longer.
C36_Step ==
  (RunFailsNow /\ stored) =>
    Len(session'.errors) = Len(session.errors) + 1

C36_OneErrorPerFailedRun == [][C36_Step]_vars

\* the step is the files handler refusing its request with 404 or 409
FilesRequestRefused ==
  /\ entry = "server" /\ multerPc = "stored" /\ multerPc' = "idle"
  /\ lastResp'.op = "files" /\ lastResp'.code \in {404, 409}

\* C37: a files request that is refused, for an unknown session or for a
\* status conflict, changes nothing: the session record is left as it was
\* and the request has written no file into the upload directory of the
\* session.
C37_Step ==
  FilesRequestRefused => (session' = session /\ multerFiles = <<0, 0>>)

C37_RefusedFilesRequestWritesNothing == [][C37_Step]_vars

\* a deleteSession call of the session has run to its end
DeleteSessionFinished == entry = "server" /\ session = DeletedSession

\* C38: once deleteSession has finished for a session, the session is absent
\* from the store, its cleanup timer is cancelled and no upload directory of
\* the session exists on disk, also when a files request for the session is
\* interleaved with the deletion.
C38_DeletedSessionLeavesNothing ==
  DeleteSessionFinished =>
    (~stored /\ ~cleanupTimer /\ ~uploadDir /\ diskFiles = 0)

\* the completeFileUpload request of the multipart file has gone out
CompleteRequestSent ==
  entry = "multipart" /\ mpPhase \in {"completing", "resolved"}

\* C39: in a multipart upload, the chunk reported as part number p in the
\* completion request was PUT to the presigned URL that the service issued
\* with part_number p, whatever the order in which the service lists the
\* presigned_urls.
C39_PartNumberMatchesUrl ==
  CompleteRequestSent =>
    \A k \in 1..Len(completeRequest) :
      completeRequest[k].etag = completeRequest[k].part_number

\* the step hands a new UploadProgress to onProgress
ProgressReported == entry = "sdk" /\ Len(reports') = Len(reports) + 1

\* C40: across the successive progress callbacks of one uploadBatch run,
\* percentComplete stays within 0..100 and never decreases from one callback
\* to the next.
C40_Step ==
  ProgressReported =>
    /\ progress'.percentComplete \in 0..100
    /\ progress'.percentComplete >= progress.percentComplete

C40_PercentCompleteNeverDecreases == [][C40_Step]_vars

====
